---- MODULE Spec2Model ----
(***************************************************************************)
(* A model of the stockbit crawler: the Historical Crawl Engine            *)
(* (jobs.py, stockbit_client.py, storage.py), the Token Store (auth.py)    *)
(* and the Streaming Supervisor (orderbook_daemon.py) with the Orderbook   *)
(* Streamer it schedules (orderbook_streamer.py).                          *)
(*                                                                         *)
(* Threads are modelled by their position (a pc).  A thread's step runs    *)
(* from one blocking call or I/O call (time.sleep, a network request, a    *)
(* join on a future, a log write) to the next: these are the places where  *)
(* CPython hands the interpreter to another thread.                        *)
(***************************************************************************)
EXTENDS Integers, Sequences, FiniteSets, TLC

(***************************************************************************)
(* Bounds of the model.                                                    *)
(***************************************************************************)
\* jobs created in one behaviour
MaxJobs == 1
\* calendar days of a job's date range (fromDate is day 1)
MaxDays == 1
\* records the vendor holds for one (ticker, date)
MaxRecords == 3
\* Job.limit, the page size a job asks for
PageLimit == 2
\* Streamer objects alive at once
MaxStreamers == 2
\* tasks of a job run with a thread pool, and the pool's threads
PoolTasks == 3
PoolWorkers == 2
\* symbols in one list given to a watchlist command
MaxRaw == 2
\* tickers in one subscription, and fields in one frame of string fields
MaxSubscribed == 2
MaxFields == 2
\* characters of the long bearer: its length needs a varint of two bytes
LongLen == 130
\* frames one behaviour of the Streamer handles, and the days it runs over
MaxFrames == 2
MaxRetryCount == 3
MaxDates == 2

\* the ticker lists a job or a watchlist command is given
TickerLists == {<<"A">>, <<"A", "B">>}
Tickers == {"A", "B"}

VARIABLES
    \* ---- Historical Crawl Engine (jobs.py)
    jobs,         \* JobManager.jobs: job id -> Job
    pause_flag,   \* JobManager.pause_flag
    stop_flag,    \* JobManager.stop_flag
    w,            \* the worker thread: its position in _worker_loop
    csv,          \* the trade CSV files: file name -> rows
    vendorN,      \* records the vendor holds for every (ticker, date)
    earlyUpTo,    \* records numbered <= earlyUpTo carry a time <= 09:00:00
    vendorOk,     \* the vendor accepts the stored bearer
    jlog,         \* per job: what interrupted it so far (history)
    \* ---- Token Store (auth.py)
    tokenStore,   \* "absent" | "valid" | "expired"
    \* ---- Streaming Supervisor (orderbook_daemon.py)
    dstate,       \* OrderbookDaemon.state
    tickers,      \* OrderbookDaemon.tickers
    paused,       \* OrderbookDaemon.paused
    streamer,     \* OrderbookDaemon.streamer: a Streamer id, 0 for None
    streamers,    \* every Streamer object: id -> "free" | "running" | "stopped"
    clock,        \* the phase of the trading day
    tick,         \* the scheduler thread: its position in _scheduler_loop
    cmd,          \* the thread running an external command
    lastTick,     \* what the last finished tick saw and did (history)
    lastCmd,      \* what the last finished command saw and did (history)
    pauseHeld,    \* pause() has returned and resume() was not called since (history)
    seq,          \* how far a run of pause, resume, pause, resume has come (history)
    \* ---- Token Store in detail (auth.py)
    tm,           \* the TokenManager object: token, exp, issued_at, cookies
    token_file,   \* config/token.json: the persisted document
    now,          \* the current second, counted from the epoch (1 or later)
    lastSet,      \* what the last set_token call was given and answered (history)
    \* ---- one Streamer session (orderbook_streamer.py)
    sr,           \* the OrderbookStreamer object and the position of its run()
    \* ---- the job store (database.py, table jobs)
    db,           \* job id -> the persisted row of the job
    boots,        \* how many times the JobManager was built again (history)
    \* ---- _process_job with parallel_workers > 1 (jobs.py)
    pool,         \* the thread pool of one job: its futures and the job's status
    \* ---- the frame codec (orderbook_streamer.py)
    cx,           \* one use of the codec: what was given, the frame, what was decoded
    \* ---- inbound frames and the orderbook CSV files (orderbook_streamer.py)
    files,        \* the orderbook directory: file name -> rows
    file_handles, \* OrderbookCSVStorage.file_handles: ticker -> date of the open file
    today,        \* date.today()
    appended,     \* every write_orderbook_level call so far, in order (history)
    handled,      \* frames given to handle_message so far (history)
    lastFrame,    \* the last frame handled: its shape, its stamps, its rows (history)
    \* ---- the Market Clock (orderbook_daemon.py)
    mc,           \* an instant in WIB and what _get_market_status says of it
    \* ---- threads of the Historical Crawl Engine (jobs.py, storage.py)
    orphan,       \* a dispatcher thread JobManager.worker_thread no longer names
    saving,       \* the pool threads inside CSVStorage.save_trades, and their file
    \* ---- one call of StockbitClient._fetch_page (stockbit_client.py)
    fp            \* its retry loop, the answers received and the result

engineVars == <<jobs, pause_flag, stop_flag, w, csv, vendorN, earlyUpTo, vendorOk, jlog>>
daemonVars == <<dstate, tickers, paused, streamer, streamers, clock, tick, cmd,
                lastTick, lastCmd, pauseHeld, seq>>
vars == <<jobs, pause_flag, stop_flag, w, csv, vendorN, earlyUpTo, vendorOk, jlog,
          tokenStore,
          dstate, tickers, paused, streamer, streamers, clock, tick, cmd,
          lastTick, lastCmd, pauseHeld, seq,
          tm, token_file, now, lastSet, sr, db, boots,
          pool, cx, files, file_handles, today, appended, handled, lastFrame, mc,
          orphan, saving, fp>>
tokenManagerVars == <<tm, token_file, now, lastSet>>
streamerVars == <<sr>>
storeVars == <<db, boots>>
poolVars == <<pool>>
\* the parts added to the first ones, and the first ones
codecVars == <<cx>>
sinkVars == <<files, file_handles, today, appended, handled, lastFrame>>
clockVars == <<mc>>
lateVars == <<orphan, saving, fp>>
otherParts == <<poolVars, codecVars, sinkVars, clockVars, lateVars>>
coreVars == <<engineVars, tokenStore, daemonVars, tokenManagerVars, streamerVars, storeVars>>

(***************************************************************************)
(* Token Store                                                             *)
(***************************************************************************)
\* TokenManager.get_valid_token: the bearer, when one is stored and not expired
get_valid_token == tokenStore = "valid"

\* TokenManager.mark_token_invalid: the bearer and its expiry are dropped
mark_token_invalid == "absent"

\* TokenManager.set_token: a malformed bearer changes nothing; a well-formed one
\* is stored, and is valid unless its exp claim already lies in the past
BearerKinds == {"fresh", "stale", "malformed"}
set_token_ok(kind) == kind # "malformed"
set_token(kind) ==
    CASE kind = "fresh" -> "valid"
      [] kind = "stale" -> "expired"
      [] OTHER -> tokenStore

(***************************************************************************)
(* Historical Crawl Engine: data                                           *)
(***************************************************************************)
JobIds == 1..MaxJobs

NoJob == [status |-> "ABSENT", tickers |-> <<>>, until |-> 0, tasks |-> <<>>]

\* no row in the table jobs
NoRow == [status |-> "ABSENT", tickers |-> <<>>, until |-> 0]

\* Task(ticker, date): a fresh task is PENDING with nothing fetched;
\* rows_written counts the rows save_trades wrote for it (history)
Task(ticker, date) ==
    [ticker |-> ticker, date |-> date, status |-> "PENDING",
     records_fetched |-> 0, pages_fetched |-> 0, rows_written |-> 0]

\* a task list that leaves out the last date of the range
ExpandTasksExclusive(tks, until) ==
    LET n == IF until > 0 THEN until - 1 ELSE 0
    IN [i \in 1..(Len(tks) * n) |->
           Task(tks[((i - 1) \div n) + 1], ((i - 1) % n) + 1)]

\* the task list create_job builds: for each ticker, for each date of the range
ExpandTasks(tks, until) ==
    [i \in 1..(Len(tks) * until) |->
        Task(tks[((i - 1) \div until) + 1], ((i - 1) % until) + 1)]

\* CSVStorage.get_filename: one file per ticker and date range (fromDate is day 1)
get_filename(ticker, until) == <<ticker, until>>
FileNames == Tickers \X (1..(MaxDays + 1))

Min(a, b) == IF a < b THEN a ELSE b

\* the vendor's answer to one page request: the records older than the cursor,
\* newest first, at most limit of them (cursor 0 is no cursor)
PageOf(n, cursor, limit) ==
    LET top == IF cursor = 0 THEN n ELSE cursor - 1
        k == Min(limit, top)
    IN [i \in 1..k |-> top - i + 1]

\* the time of record r is at or before 09:00:00
IsEarly(r) == r <= earlyUpTo

\* StockbitClient._fetch_page: the results a page request can end with
FetchOutcomes ==
    IF ~get_valid_token THEN {"no_token"}
    ELSE (IF vendorOk THEN {"200"} ELSE {"401"}) \cup {"403", "error"}

\* the results of _fetch_page that carry requires_login
requires_login(o) == o \in {"no_token", "401", "403"}

IdleWorker == [pc |-> "idle", job |-> 0, pending |-> <<>>, pos |-> 0,
               page |-> 0, cursor |-> 0, all |-> <<>>]

\* the indices of the tasks _process_job will run: those not COMPLETED or SKIPPED
PendingTasks(j) ==
    LET ts == jobs[j].tasks
        F[i \in 0..Len(ts)] ==
            IF i = 0 THEN <<>>
            ELSE IF ts[i].status \notin {"COMPLETED", "SKIPPED"}
                 THEN Append(F[i - 1], i) ELSE F[i - 1]
    IN F[Len(ts)]

\* the worker thread is alive
WorkerAlive == w.pc # "dead"

(***************************************************************************)
(* Historical Crawl Engine: operations                                     *)
(***************************************************************************)
\* JobManager.create_job: expand the tasks, store the job, start the worker
\* when none is alive
create_job(tks, until) ==
    /\ \E j \in JobIds : jobs[j].status = "ABSENT"
    /\ LET j == CHOOSE k \in JobIds :
                  jobs[k].status = "ABSENT" /\ \A m \in 1..(k - 1) : jobs[m].status # "ABSENT"
       IN /\ jobs' = [jobs EXCEPT ![j] = [status |-> "QUEUED", tickers |-> tks,
                                          until |-> until, tasks |-> ExpandTasks(tks, until)]]
          /\ db' = [db EXCEPT ![j] = [status |-> "QUEUED", tickers |-> tks, until |-> until]]
          /\ UNCHANGED boots
    /\ IF WorkerAlive THEN UNCHANGED <<w, stop_flag>>
       ELSE w' = IdleWorker /\ stop_flag' = FALSE
    /\ UNCHANGED <<pause_flag, csv, vendorN, earlyUpTo, vendorOk, jlog, tokenStore, daemonVars, tokenManagerVars, streamerVars, otherParts>>

\* JobManager.pause_job
pause_job(j) ==
    /\ jobs[j].status = "RUNNING"
    /\ jobs' = [jobs EXCEPT ![j].status = "PAUSED"]
    /\ pause_flag' = TRUE
    /\ jlog' = [jlog EXCEPT ![j].other = TRUE]
    /\ UNCHANGED <<stop_flag, w, csv, vendorN, earlyUpTo, vendorOk, tokenStore, daemonVars, tokenManagerVars, streamerVars, storeVars, otherParts>>

\* the jobs map after resume_job(j)
Resumed(js, j) == IF js[j].status = "PAUSED" THEN [js EXCEPT ![j].status = "QUEUED"] ELSE js

\* JobManager.resume_job
resume_job(j) ==
    /\ jobs[j].status = "PAUSED"
    /\ jobs' = Resumed(jobs, j)
    /\ pause_flag' = FALSE
    /\ IF WorkerAlive THEN UNCHANGED <<w, stop_flag>>
       ELSE w' = IdleWorker /\ stop_flag' = FALSE
    /\ UNCHANGED <<csv, vendorN, earlyUpTo, vendorOk, jlog, tokenStore, daemonVars, tokenManagerVars, streamerVars, storeVars, otherParts>>

\* JobManager.auto_resume_paused_jobs: resume_job on every paused job
auto_resume_paused_jobs ==
    /\ \E j \in JobIds : jobs[j].status = "PAUSED"
    /\ jobs' = [j \in JobIds |-> Resumed(jobs, j)[j]]
    /\ pause_flag' = FALSE
    /\ IF WorkerAlive THEN UNCHANGED <<w, stop_flag>>
       ELSE w' = IdleWorker /\ stop_flag' = FALSE
    /\ UNCHANGED <<csv, vendorN, earlyUpTo, vendorOk, jlog, tokenStore, daemonVars, tokenManagerVars, streamerVars, storeVars, otherParts>>

\* JobManager.cancel_job: the status becomes FAILED whatever it was
cancel_job(j) ==
    /\ jobs[j].status # "ABSENT"
    /\ jobs' = [jobs EXCEPT ![j].status = "FAILED"]
    /\ jlog' = [jlog EXCEPT ![j].other = TRUE,
                            ![j].cancelled = @ \/ (jobs[j].status = "RUNNING" /\ w.job = j)]
    /\ UNCHANGED <<pause_flag, stop_flag, w, csv, vendorN, earlyUpTo, vendorOk, tokenStore, daemonVars, tokenManagerVars, streamerVars, storeVars, otherParts>>

\* JobManager.stop_worker: raise the stop flag (the join waits at most 5 s)
stop_worker ==
    /\ ~stop_flag
    /\ stop_flag' = TRUE
    /\ UNCHANGED <<jobs, pause_flag, w, csv, vendorN, earlyUpTo, vendorOk, jlog, tokenStore, daemonVars, tokenManagerVars, streamerVars, storeVars, otherParts>>

\* JobManager._worker_loop: leave the loop once the stop flag is seen
worker_exit ==
    /\ w.pc = "idle"
    /\ stop_flag
    /\ w' = [w EXCEPT !.pc = "dead"]
    /\ UNCHANGED <<jobs, pause_flag, stop_flag, csv, vendorN, earlyUpTo, vendorOk, jlog, tokenStore, daemonVars, tokenManagerVars, streamerVars, storeVars, otherParts>>

\* JobManager._worker_loop and the head of _process_job: take the first QUEUED
\* job in insertion order, mark it RUNNING and list its pending tasks
worker_pick ==
    /\ w.pc = "idle"
    /\ ~stop_flag
    /\ \E j \in JobIds : jobs[j].status = "QUEUED"
    /\ LET j == CHOOSE k \in JobIds :
                  jobs[k].status = "QUEUED" /\ \A m \in 1..(k - 1) : jobs[m].status # "QUEUED"
       IN /\ jobs' = [jobs EXCEPT ![j].status = "RUNNING"]
          /\ w' = [pc |-> "loop", job |-> j, pending |-> PendingTasks(j), pos |-> 1,
                   page |-> 0, cursor |-> 0, all |-> <<>>]
    /\ UNCHANGED <<pause_flag, stop_flag, csv, vendorN, earlyUpTo, vendorOk, jlog, tokenStore, daemonVars, tokenManagerVars, streamerVars, storeVars, otherParts>>

\* the status _process_job leaves once its task loop has ended
FinishedStatus(s) == IF s = "PAUSED" THEN "PAUSED" ELSE "COMPLETED"

\* JobManager._process_job, one turn of the sequential task loop: wait while the
\* pause flag is up, give up when the stop flag is up, else start the next task;
\* after the last task mark the job COMPLETED unless it is PAUSED
process_job ==
    /\ w.pc = "loop"
    /\ IF w.pos > Len(w.pending)
       THEN /\ jobs' = [jobs EXCEPT ![w.job].status = FinishedStatus(jobs[w.job].status)]
            /\ w' = IdleWorker
            /\ UNCHANGED jlog
       ELSE /\ ~(pause_flag /\ ~stop_flag)
            /\ IF stop_flag
               THEN /\ jobs' = [jobs EXCEPT ![w.job].status = "PAUSED"]
                    /\ w' = IdleWorker
                    /\ jlog' = [jlog EXCEPT ![w.job].other = TRUE]
               ELSE /\ jobs' = [jobs EXCEPT ![w.job].tasks[w.pending[w.pos]].status = "RUNNING"]
                    /\ w' = [w EXCEPT !.pc = "fetch", !.page = 1, !.cursor = 0, !.all = <<>>]
                    /\ UNCHANGED jlog
    /\ UNCHANGED <<pause_flag, stop_flag, csv, vendorN, earlyUpTo, vendorOk, tokenStore, daemonVars, tokenManagerVars, streamerVars, storeVars, otherParts>>

\* CSVStorage.save_trades in append mode: one row per trade, in the order given
save_trades(file, date, trades) ==
    [csv EXCEPT ![file] = @ \o [i \in 1..Len(trades) |-> <<date, trades[i]>>]]

\* _process_task taking the count of the last progress report for the result's count
task_done_progress(j, t, trades, pages, saveOk, log) ==
    LET tk == jobs[j].tasks[t]
        file == get_filename(tk.ticker, jobs[j].until)
    IN IF trades = <<>> \/ saveOk
       THEN /\ csv' = (IF trades = <<>> THEN csv ELSE save_trades(file, tk.date, trades))
            /\ jobs' = [jobs EXCEPT ![j].tasks[t] =
                           [tk EXCEPT !.status = "COMPLETED",
                                      !.records_fetched = Len(w.all),
                                      !.pages_fetched = pages,
                                      !.rows_written = @ + Len(trades)]]
            /\ jlog' = log
       ELSE /\ csv' = csv
            /\ jobs' = [jobs EXCEPT ![j].tasks[t] =
                           [tk EXCEPT !.status = "FAILED", !.records_fetched = Len(w.all)]]
            /\ jlog' = [log EXCEPT ![j].other = TRUE]

\* JobManager._process_task after fetch_running_trade returned success with
\* `trades` over `pages` pages: save, then mark the task COMPLETED, or FAILED
\* when the save failed
task_done(j, t, trades, pages, saveOk, log) ==
    LET tk == jobs[j].tasks[t]
        file == get_filename(tk.ticker, jobs[j].until)
    IN IF trades = <<>> \/ saveOk
       THEN /\ csv' = (IF trades = <<>> THEN csv ELSE save_trades(file, tk.date, trades))
            /\ jobs' = [jobs EXCEPT ![j].tasks[t] =
                           [tk EXCEPT !.status = "COMPLETED",
                                      !.records_fetched = Len(trades),
                                      !.pages_fetched = pages,
                                      !.rows_written = @ + Len(trades)]]
            /\ jlog' = log
       ELSE /\ csv' = csv
            /\ jobs' = [jobs EXCEPT ![j].tasks[t] =
                           [tk EXCEPT !.status = "FAILED", !.records_fetched = Len(w.all)]]
            /\ jlog' = [log EXCEPT ![j].other = TRUE]

\* _process_task giving the job up on an error that is not requires_login
task_failed_kills_job(j, t, o) ==
    /\ csv' = csv
    /\ IF requires_login(o)
       THEN /\ jobs' = [jobs EXCEPT ![j].status = "PAUSED",
                                    ![j].tasks[t].status = "PENDING",
                                    ![j].tasks[t].records_fetched = 0]
            /\ jlog' = jlog
       ELSE /\ jobs' = [jobs EXCEPT ![j].status = "FAILED",
                                    ![j].tasks[t].status = "FAILED",
                                    ![j].tasks[t].records_fetched = 0]
            /\ jlog' = [jlog EXCEPT ![j].other = TRUE]

\* JobManager._process_task after fetch_running_trade returned a failure:
\* requires_login pauses the job and puts the task back to PENDING, any other
\* error marks the task FAILED
task_failed(j, t, o) ==
    /\ csv' = csv
    /\ IF requires_login(o)
       THEN /\ jobs' = [jobs EXCEPT ![j].status = "PAUSED",
                                    ![j].tasks[t].status = "PENDING",
                                    ![j].tasks[t].records_fetched = 0]
            /\ jlog' = jlog
       ELSE /\ jobs' = [jobs EXCEPT ![j].tasks[t].status = "FAILED",
                                    ![j].tasks[t].records_fetched = 0]
            /\ jlog' = [jlog EXCEPT ![j].other = TRUE]

\* StockbitClient.fetch_running_trade, one turn of its page loop, with the
\* part of _process_task that follows when the loop ends.  o is the result of
\* _fetch_page, saveOk whether the CSV write succeeds.
fetch_running_trade(o, saveOk) ==
    /\ w.pc = "fetch"
    /\ o \in FetchOutcomes
    /\ LET j == w.job
           t == w.pending[w.pos]
           tk == jobs[j].tasks[t]
           page_trades == PageOf(vendorN, w.cursor, PageLimit)
           all2 == w.all \o page_trades
           last == page_trades[Len(page_trades)]
           next == [w EXCEPT !.pc = "loop", !.pos = w.pos + 1]
       IN /\ tokenStore' = (IF o = "401" THEN mark_token_invalid ELSE tokenStore)
          /\ IF o # "200"
             THEN IF w.all # <<>>
                  \* an error after the first page: return what was collected, as success
                  THEN /\ task_done(j, t, w.all, w.page - 1, saveOk,
                                    IF requires_login(o)
                                    THEN [jlog EXCEPT ![j].mid = "hit"]
                                    ELSE [jlog EXCEPT ![j].other = TRUE])
                       /\ w' = next
                  ELSE /\ task_failed(j, t, o)
                       /\ w' = next
             ELSE IF page_trades = <<>>
                  THEN /\ task_done(j, t, w.all, w.page, saveOk, jlog)
                       /\ w' = next
                  ELSE IF Len(page_trades) < PageLimit \/ IsEarly(last)
                       THEN /\ task_done(j, t, all2, w.page, saveOk, jlog)
                            /\ w' = next
                       ELSE /\ w' = [w EXCEPT !.all = all2, !.cursor = last, !.page = w.page + 1]
                            /\ jobs' = [jobs EXCEPT ![j].tasks[t].records_fetched = Len(w.all)]
                            /\ UNCHANGED <<csv, jlog>>
    /\ UNCHANGED <<pause_flag, stop_flag, vendorN, earlyUpTo, vendorOk, daemonVars, tokenManagerVars, streamerVars, storeVars, otherParts>>

\* the vendor stops accepting the stored bearer (its session ended)
vendor_revoke ==
    /\ vendorOk
    /\ tokenStore = "valid"
    /\ vendorOk' = FALSE
    /\ UNCHANGED <<jobs, pause_flag, stop_flag, w, csv, vendorN, earlyUpTo, jlog, tokenStore, daemonVars, tokenManagerVars, streamerVars, storeVars, otherParts>>

\* the set-token route of app.py: TokenManager.set_token, and on success
\* auto_resume_paused_jobs
set_token_route(kind) ==
    /\ tokenStore' = set_token(kind)
    /\ vendorOk' = (IF kind = "fresh" THEN TRUE ELSE vendorOk)
    /\ IF set_token_ok(kind)
       THEN /\ jobs' = [j \in JobIds |-> Resumed(jobs, j)[j]]
            /\ IF \E j \in JobIds : jobs[j].status = "PAUSED"
               THEN /\ pause_flag' = FALSE
                    /\ IF WorkerAlive THEN UNCHANGED <<w, stop_flag>>
                       ELSE w' = IdleWorker /\ stop_flag' = FALSE
               ELSE UNCHANGED <<pause_flag, w, stop_flag>>
       ELSE UNCHANGED <<jobs, pause_flag, w, stop_flag>>
    /\ jlog' = [j \in JobIds |->
                  IF set_token_ok(kind) /\ jlog[j].mid = "hit"
                  THEN [jlog[j] EXCEPT !.mid = "resumed"] ELSE jlog[j]]
    /\ UNCHANGED <<csv, vendorN, earlyUpTo, daemonVars, tokenManagerVars, streamerVars, storeVars, otherParts>>

\* the bearer's exp claim passes
token_expires ==
    /\ tokenStore = "valid"
    /\ tokenStore' = "expired"
    /\ UNCHANGED <<jobs, pause_flag, stop_flag, w, csv, vendorN, earlyUpTo, vendorOk, jlog, daemonVars, tokenManagerVars, streamerVars, storeVars, otherParts>>

(***************************************************************************)
(* Orderbook Streamer, as the Supervisor uses it                           *)
(***************************************************************************)
\* the keyword arguments OrderbookDaemon._start_stream constructs a Streamer with
DaemonCtorArgs == {"token_manager", "tickers", "max_retries"}

\* OrderbookStreamer.__init__(self, token_manager, tickers): a call naming any
\* other argument raises TypeError
StreamerInit(args) == args \subseteq {"token_manager", "tickers"}

\* the constructor call of _start_stream returns a Streamer
ConstructorAccepts == StreamerInit(DaemonCtorArgs)

StreamerIds == 1..MaxStreamers

\* OrderbookStreamer.get_stats carries no connection_status entry; the
\* Supervisor reads it with the default 'unknown'
connection_status == "unknown"

\* a Streamer object that is not running can be taken for the next Streamer
FreeIds(sts) == {i \in StreamerIds : sts[i] # "running"}
NewId(sts) == CHOOSE i \in FreeIds(sts) : \A k \in FreeIds(sts) : i <= k

(***************************************************************************)
(* Streaming Supervisor: data                                              *)
(***************************************************************************)
DaemonStates == {"waiting_market", "streaming", "paused", "error",
                 "market_closed", "no_tickers"}

\* the phases of a trading day, in order
Phases == <<"pre", "s1", "break", "s2", "after">>
NextPhase(c) ==
    CASE c = "pre" -> "s1" [] c = "s1" -> "break" [] c = "break" -> "s2"
      [] c = "s2" -> "after" [] OTHER -> "pre"

\* OrderbookDaemon._get_market_status()['status']
market_status(c) ==
    IF c \in {"s1", "s2"} THEN "open" ELSE IF c = "break" THEN "break" ELSE "closed"

\* the ticker lists given to the watchlist commands
CmdLists == {<<>>, <<"A">>, <<"A", "B">>}

InList(t, l) == \E i \in 1..Len(l) : l[i] = t

\* add_tickers: append the symbols that are not in the watchlist yet
AddTo(l, new) ==
    LET F[i \in 0..Len(new)] ==
            IF i = 0 THEN l
            ELSE IF InList(new[i], F[i - 1]) THEN F[i - 1] ELSE Append(F[i - 1], new[i])
    IN F[Len(new)]

\* list.remove(t): the list without the first entry equal to t
RemoveFirst(l, t) ==
    LET k == CHOOSE i \in 1..Len(l) : l[i] = t /\ \A h \in 1..(i - 1) : l[h] # t
    IN [i \in 1..(Len(l) - 1) |-> IF i < k THEN l[i] ELSE l[i + 1]]

\* remove_tickers: for every symbol given that is in the watchlist, remove
\* its first entry
RemoveFrom(l, gone) ==
    LET F[i \in 0..Len(gone)] ==
            IF i = 0 THEN l
            ELSE IF InList(gone[i], F[i - 1]) THEN RemoveFirst(F[i - 1], gone[i])
                 ELSE F[i - 1]
    IN F[Len(gone)]

\* the symbols as a caller may write them, and lists of them
RawSymbols == {"A", "B", "a", " A", " ", ""}
RawLists == UNION {[1..n -> RawSymbols] : n \in 0..MaxRaw}

\* str.strip and str.upper on these symbols
strip(t) == IF t = " A" THEN "A" ELSE IF t = " " THEN "" ELSE t
upper(t) == IF t = "a" THEN "A" ELSE t

\* `[t.strip().upper() for t in tickers if t.strip()]`
StripUpper(raw) ==
    LET kept == SelectSeq(raw, LAMBDA t : strip(t) # "")
    IN [i \in 1..Len(kept) |-> upper(strip(kept[i]))]

SleepingTick == [pc |-> "sleep", obs |-> "-", clk |-> "-"]
IdleCmd == [pc |-> "idle", name |-> "-", from |-> "-"]
NoTick == [kind |-> "none", obs |-> "-", clk |-> "-", tokenOk |-> FALSE,
           listed |-> FALSE, wasPaused |-> FALSE, held |-> 0, created |-> FALSE]
NoCmd == [name |-> "none", from |-> "-", empty |-> FALSE, tokenOk |-> FALSE,
          listed |-> FALSE, open |-> FALSE]

\* OrderbookDaemon._is_stream_healthy
is_stream_healthy ==
    IF streamer = 0 THEN FALSE
    ELSE IF connection_status = "connected" /\ streamers[streamer] = "running" THEN TRUE
    ELSE IF connection_status \in {"retrying", "error", "stopped", "disconnected"} THEN FALSE
    ELSE TRUE

\* _start_stream without a valid token leaving the state as it waits for the market
NoTokenStateWaiting == "waiting_market"
\* the state _start_stream leaves when the Token Store has no valid token
NoTokenState == "error"

\* _start_stream gets as far as a running Streamer
StartCreates(tks, tokOk) == tks # <<>> /\ tokOk /\ ConstructorAccepts

\* OrderbookDaemon._start_stream, on watchlist tks, token validity tokOk, the
\* held Streamer cur and the Streamer objects sts
start_stream(tks, tokOk, cur, sts) ==
    IF tks = <<>>
    THEN dstate' = "no_tickers" /\ streamer' = cur /\ streamers' = sts
    ELSE IF ~tokOk
    THEN dstate' = NoTokenState /\ streamer' = cur /\ streamers' = sts
    ELSE IF ~ConstructorAccepts
    THEN dstate' = "error" /\ streamer' = cur /\ streamers' = sts
    ELSE /\ FreeIds(sts) # {}
         /\ dstate' = "streaming"
         /\ streamer' = NewId(sts)
         /\ streamers' = [sts EXCEPT ![NewId(sts)] = "running"]

\* the state _start_stream leaves
StartState(tks, tokOk) ==
    IF tks = <<>> THEN "no_tickers"
    ELSE IF ~tokOk THEN NoTokenState
    ELSE IF ~ConstructorAccepts THEN "error"
    ELSE "streaming"

\* OrderbookDaemon._stop_stream, first half: with a Streamer held, have its
\* stop() run on the event loop and wait for it
StopCalled(sts, cur) == IF cur = 0 THEN sts ELSE [sts EXCEPT ![cur] = "stopped"]

\* the state a tick leaves after stopping the stream outside the sessions
StopTarget(clk) == IF clk = "break" THEN "waiting_market" ELSE "market_closed"

\* the state a tick or resume() picks from the watchlist alone
IdleState(tks) == IF tks # <<>> THEN "waiting_market" ELSE "no_tickers"

\* the state one pass of _scheduler_loop leaves, when it is not paused, from
\* the state st, the market status ms, the watchlist, the token validity and
\* the health of the stream
TickState(st, ms, tks, tokOk, healthy) ==
    IF ms = "open"
    THEN IF st # "streaming"
         THEN IF tks # <<>> THEN StartState(tks, tokOk) ELSE "no_tickers"
         ELSE IF ~healthy THEN StartState(tks, tokOk) ELSE st
    ELSE IF ms = "break"
    THEN IF st = "streaming" THEN "waiting_market"
         ELSE IF st \notin {"waiting_market", "no_tickers"} THEN IdleState(tks) ELSE st
    ELSE IF st = "streaming" THEN "market_closed"
         ELSE IF st \notin {"market_closed", "waiting_market", "no_tickers"}
         THEN IdleState(tks) ELSE st

\* the state a Supervisor just started on these inputs (start() leaves
\* no_tickers or waiting_market, pause() leaves paused) has after one tick
FreshState(ms, tks, tokOk, isPaused) ==
    IF isPaused THEN "paused"
    ELSE TickState(IdleState(tks), ms, tks, tokOk, FALSE)

\* the Supervisor is at rest: no tick and no command is in progress, and the
\* last tick, run after the last command, left the state as it found it
Quiet == tick.pc = "sleep" /\ cmd.pc = "idle" /\ lastTick.kind # "none" /\ lastTick.obs = dstate

\* the run of pause(), resume(), pause(), resume(): it starts at rest and not
\* paused, and goes on while every command is given at rest
NoSeq == [n |-> 0, from |-> "-", tokenOk |-> FALSE]
SeqStep(name) ==
    IF ~Quiet THEN NoSeq
    ELSE IF name = "pause" /\ seq.n \in {0, 4} /\ ~paused
    THEN [n |-> 1, from |-> dstate, tokenOk |-> get_valid_token]
    ELSE IF name = "pause" /\ seq.n = 2 THEN [seq EXCEPT !.n = 3]
    ELSE IF name = "resume" /\ seq.n \in {1, 3} THEN [seq EXCEPT !.n = @ + 1]
    ELSE NoSeq

(***************************************************************************)
(* Streaming Supervisor: the scheduler thread                              *)
(***************************************************************************)
\* OrderbookDaemon._scheduler_loop, from the wake-up to the first call that
\* yields: read paused, the market status and the state, and either finish the
\* tick at once or go on to start, restart or stop the stream
scheduler_loop ==
    /\ tick.pc = "sleep"
    /\ lastCmd' = NoCmd
    /\ LET ms == market_status(clock)
           go(pc) == /\ tick' = [pc |-> pc, obs |-> dstate, clk |-> ms]
                     /\ lastTick' = NoTick
                     /\ UNCHANGED dstate
           set(s) == /\ dstate' = s
                     /\ lastTick' = [NoTick EXCEPT !.kind = "set", !.obs = dstate, !.clk = ms,
                                                     !.tokenOk = get_valid_token,
                                                     !.listed = tickers # <<>>]
                     /\ UNCHANGED tick
           skip == /\ lastTick' = [NoTick EXCEPT !.kind = "skip", !.obs = dstate, !.clk = ms,
                                                   !.tokenOk = get_valid_token,
                                                   !.listed = tickers # <<>>,
                                                   !.wasPaused = paused]
                   /\ UNCHANGED <<dstate, tick>>
       IN IF paused THEN skip
          ELSE IF ms = "open"
          THEN IF dstate # "streaming"
               THEN IF tickers # <<>> THEN go("start") ELSE set("no_tickers")
               ELSE IF ~is_stream_healthy THEN go("restart") ELSE skip
          ELSE IF ms = "break"
          THEN IF dstate = "streaming" THEN go("stop")
               ELSE IF dstate \notin {"waiting_market", "no_tickers"}
               THEN set(IdleState(tickers)) ELSE skip
          ELSE IF dstate = "streaming" THEN go("stop")
               ELSE IF dstate \notin {"market_closed", "waiting_market", "no_tickers"}
               THEN set(IdleState(tickers)) ELSE skip
    /\ UNCHANGED <<tickers, paused, streamer, streamers, clock, cmd, pauseHeld>>
    /\ UNCHANGED seq
    /\ UNCHANGED <<engineVars, tokenStore, tokenManagerVars, streamerVars, storeVars, otherParts>>

\* the tick's call of _start_stream
tick_start ==
    /\ tick.pc = "start"
    /\ start_stream(tickers, get_valid_token, streamer, streamers)
    /\ tick' = SleepingTick
    /\ lastTick' = [kind |-> "start", obs |-> tick.obs, clk |-> tick.clk,
                    tokenOk |-> get_valid_token, listed |-> tickers # <<>>,
                    wasPaused |-> paused, held |-> streamer,
                    created |-> StartCreates(tickers, get_valid_token)]
    /\ lastCmd' = NoCmd
    /\ UNCHANGED <<tickers, paused, clock, cmd, pauseHeld>>
    /\ UNCHANGED seq
    /\ UNCHANGED <<engineVars, tokenStore, tokenManagerVars, streamerVars, storeVars, otherParts>>

\* the tick's call of _stop_stream (alone, or as the head of _restart_stream):
\* with no Streamer held it returns at once and the tick goes on in the same step
tick_stop ==
    /\ tick.pc \in {"stop", "restart"}
    /\ lastCmd' = NoCmd
    /\ IF streamer # 0
       THEN /\ streamers' = StopCalled(streamers, streamer)
            /\ tick' = [tick EXCEPT !.pc = IF tick.pc = "stop" THEN "stop2" ELSE "restart2"]
            /\ lastTick' = NoTick
            /\ UNCHANGED <<dstate, streamer>>
       ELSE /\ tick' = SleepingTick
            /\ IF tick.pc = "stop"
               THEN /\ dstate' = StopTarget(tick.clk)
                    /\ UNCHANGED <<streamer, streamers>>
                    /\ lastTick' = [NoTick EXCEPT !.kind = "stop", !.obs = tick.obs,
                                                  !.clk = tick.clk]
               ELSE /\ start_stream(tickers, get_valid_token, 0, streamers)
                    /\ lastTick' = [kind |-> "restart", obs |-> tick.obs, clk |-> tick.clk,
                                    tokenOk |-> get_valid_token, listed |-> tickers # <<>>,
                                    wasPaused |-> paused, held |-> 0,
                                    created |-> StartCreates(tickers, get_valid_token)]
    /\ UNCHANGED <<tickers, paused, clock, cmd, pauseHeld>>
    /\ seq' = NoSeq
    /\ UNCHANGED <<engineVars, tokenStore, tokenManagerVars, streamerVars, storeVars, otherParts>>

\* _stop_stream, second half: drop the reference; then the tick sets the state
\* (stop) or calls _start_stream (restart)
tick_stop_done ==
    /\ tick.pc \in {"stop2", "restart2"}
    /\ lastCmd' = NoCmd
    /\ tick' = SleepingTick
    /\ IF tick.pc = "stop2"
       THEN /\ dstate' = StopTarget(tick.clk)
            /\ streamer' = 0
            /\ UNCHANGED streamers
            /\ lastTick' = [NoTick EXCEPT !.kind = "stop", !.obs = tick.obs,
                                          !.clk = tick.clk, !.held = streamer]
       ELSE /\ start_stream(tickers, get_valid_token, 0, streamers)
            /\ lastTick' = [kind |-> "restart", obs |-> tick.obs, clk |-> tick.clk,
                            tokenOk |-> get_valid_token, listed |-> tickers # <<>>,
                            wasPaused |-> paused, held |-> streamer,
                            created |-> StartCreates(tickers, get_valid_token)]
    /\ UNCHANGED <<tickers, paused, clock, cmd, pauseHeld>>
    /\ seq' = NoSeq
    /\ UNCHANGED <<engineVars, tokenStore, tokenManagerVars, streamerVars, storeVars, otherParts>>

(***************************************************************************)
(* Streaming Supervisor: the external commands                             *)
(***************************************************************************)
\* the stop-sleep-start (then = "start") or stop-and-set-state (then = a state)
\* tail of a command that found the Supervisor streaming: with no Streamer
\* held _stop_stream returns at once
CmdStop(name, from, then) ==
    /\ streamers' = StopCalled(streamers, streamer)
    /\ UNCHANGED streamer
    /\ IF streamer # 0
       THEN /\ cmd' = [pc |-> "stop_" \o then, name |-> name, from |-> from]
            /\ UNCHANGED dstate
       ELSE IF then = "start"
            THEN /\ cmd' = [pc |-> "sleep", name |-> name, from |-> from]
                 /\ UNCHANGED dstate
            ELSE /\ cmd' = IdleCmd
                 /\ dstate' = then

\* what a finished command leaves in the history
Done(name, from, tks, tokOk) ==
    [name |-> name, from |-> from, empty |-> tks = <<>>, tokenOk |-> tokOk,
     listed |-> tks # <<>>, open |-> market_status(clock) = "open"]

\* OrderbookDaemon.set_tickers
set_tickers(raw) ==
  LET new == StripUpper(raw) IN
    /\ cmd.pc = "idle"
    /\ tickers' = new
    /\ lastTick' = NoTick
    /\ IF dstate = "streaming" /\ tickers # new
       THEN /\ CmdStop("set_tickers", dstate, IF new # <<>> THEN "start" ELSE "no_tickers")
            /\ lastCmd' = IF cmd' = IdleCmd THEN Done("set_tickers", dstate, new, get_valid_token) ELSE NoCmd
       ELSE /\ dstate' = (IF dstate = "no_tickers" /\ new # <<>>
                          THEN "waiting_market" ELSE dstate)
            /\ lastCmd' = Done("set_tickers", dstate, new, get_valid_token)
            /\ UNCHANGED <<cmd, streamer, streamers>>
    /\ UNCHANGED <<paused, clock, tick, pauseHeld>>
    /\ seq' = NoSeq
    /\ UNCHANGED <<engineVars, tokenStore, tokenManagerVars, streamerVars, storeVars, otherParts>>

\* OrderbookDaemon.add_tickers
add_tickers(raw) ==
    /\ cmd.pc = "idle"
    /\ tickers' = AddTo(tickers, StripUpper(raw))
    /\ lastTick' = NoTick
    /\ IF tickers' # tickers /\ dstate = "streaming"
       THEN /\ CmdStop("add_tickers", dstate, "start")
            /\ lastCmd' = NoCmd
       ELSE /\ dstate' = (IF tickers' # tickers /\ dstate = "no_tickers"
                          THEN "waiting_market" ELSE dstate)
            /\ lastCmd' = Done("add_tickers", dstate, tickers', get_valid_token)
            /\ UNCHANGED <<cmd, streamer, streamers>>
    /\ UNCHANGED <<paused, clock, tick, pauseHeld>>
    /\ seq' = NoSeq
    /\ UNCHANGED <<engineVars, tokenStore, tokenManagerVars, streamerVars, storeVars, otherParts>>

\* OrderbookDaemon.remove_tickers
remove_tickers(raw) ==
    /\ cmd.pc = "idle"
    /\ tickers' = RemoveFrom(tickers, StripUpper(raw))
    /\ lastTick' = NoTick
    /\ IF tickers' # tickers /\ dstate = "streaming"
       THEN /\ CmdStop("remove_tickers", dstate,
                       IF tickers' # <<>> THEN "start" ELSE "no_tickers")
            /\ lastCmd' = IF cmd' = IdleCmd THEN Done("remove_tickers", dstate, tickers', get_valid_token)
                          ELSE NoCmd
       ELSE /\ lastCmd' = Done("remove_tickers", dstate, tickers', get_valid_token)
            /\ UNCHANGED <<dstate, cmd, streamer, streamers>>
    /\ UNCHANGED <<paused, clock, tick, pauseHeld>>
    /\ seq' = NoSeq
    /\ UNCHANGED <<engineVars, tokenStore, tokenManagerVars, streamerVars, storeVars, otherParts>>

\* OrderbookDaemon.pause
pause ==
    /\ cmd.pc = "idle"
    /\ paused' = TRUE
    /\ lastTick' = NoTick
    /\ IF dstate = "streaming"
       THEN CmdStop("pause", dstate, "paused")
       ELSE /\ dstate' = "paused"
            /\ UNCHANGED <<cmd, streamer, streamers>>
    /\ pauseHeld' = (pauseHeld \/ cmd' = IdleCmd)
    /\ lastCmd' = IF cmd' = IdleCmd THEN Done("pause", dstate, tickers, get_valid_token) ELSE NoCmd
    /\ UNCHANGED <<tickers, clock, tick>>
    /\ seq' = SeqStep("pause")
    /\ UNCHANGED <<engineVars, tokenStore, tokenManagerVars, streamerVars, storeVars, otherParts>>

\* OrderbookDaemon.resume
resume ==
    /\ cmd.pc = "idle"
    /\ paused' = FALSE
    /\ dstate' = IdleState(tickers)
    /\ pauseHeld' = FALSE
    /\ lastTick' = NoTick
    /\ lastCmd' = Done("resume", dstate, tickers, get_valid_token)
    /\ UNCHANGED <<tickers, streamer, streamers, clock, tick, cmd>>
    /\ seq' = SeqStep("resume")
    /\ UNCHANGED <<engineVars, tokenStore, tokenManagerVars, streamerVars, storeVars, otherParts>>

\* OrderbookDaemon.set_token_and_reconnect
set_token_and_reconnect(kind) ==
    /\ cmd.pc = "idle"
    /\ tokenStore' = set_token(kind)
    /\ lastTick' = NoTick
    /\ IF ~set_token_ok(kind)
       THEN /\ lastCmd' = NoCmd
            /\ UNCHANGED <<dstate, cmd, streamer, streamers>>
       ELSE IF dstate = "streaming"
       THEN /\ CmdStop("reconnect", dstate, "start")
            /\ lastCmd' = NoCmd
       ELSE IF dstate = "error" /\ market_status(clock) = "open" /\ tickers # <<>>
       THEN /\ start_stream(tickers, set_token(kind) = "valid", streamer, streamers)
            /\ lastCmd' = Done("reconnect", dstate, tickers, set_token(kind) = "valid")
            /\ UNCHANGED cmd
       ELSE /\ lastCmd' = Done("reconnect", dstate, tickers, set_token(kind) = "valid")
            /\ UNCHANGED <<dstate, cmd, streamer, streamers>>
    /\ UNCHANGED <<tickers, paused, clock, tick, pauseHeld>>
    /\ seq' = NoSeq
    /\ UNCHANGED <<engineVars, tokenManagerVars, streamerVars, storeVars, otherParts>>

\* _stop_stream, second half, inside a command: drop the reference; then sleep
\* half a second before the restart, or set the state the command ends in
cmd_stop_done ==
    /\ cmd.pc \in {"stop_start", "stop_no_tickers", "stop_paused"}
    /\ streamer' = 0
    /\ lastTick' = NoTick
    /\ IF cmd.pc = "stop_start"
       THEN /\ cmd' = [cmd EXCEPT !.pc = "sleep"]
            /\ lastCmd' = NoCmd
            /\ UNCHANGED <<dstate, pauseHeld>>
       ELSE /\ cmd' = IdleCmd
            /\ dstate' = (IF cmd.pc = "stop_paused" THEN "paused" ELSE "no_tickers")
            /\ pauseHeld' = (IF cmd.pc = "stop_paused" THEN TRUE ELSE pauseHeld)
            /\ lastCmd' = Done(cmd.name, cmd.from, tickers, get_valid_token)
    /\ UNCHANGED <<tickers, paused, streamers, clock, tick>>
    /\ seq' = NoSeq
    /\ UNCHANGED <<engineVars, tokenStore, tokenManagerVars, streamerVars, storeVars, otherParts>>

\* the end of a command's time.sleep(0.5): its call of _start_stream
cmd_wake ==
    /\ cmd.pc = "sleep"
    /\ start_stream(tickers, get_valid_token, streamer, streamers)
    /\ cmd' = IdleCmd
    /\ lastTick' = NoTick
    /\ lastCmd' = Done(cmd.name, cmd.from, tickers, get_valid_token)
    /\ UNCHANGED <<tickers, paused, clock, tick, pauseHeld>>
    /\ seq' = NoSeq
    /\ UNCHANGED <<engineVars, tokenStore, tokenManagerVars, streamerVars, storeVars, otherParts>>

(***************************************************************************)
(* Streaming Supervisor: the environment                                   *)
(***************************************************************************)
\* the trading day moves on to its next phase
clock_advance ==
    /\ clock' = NextPhase(clock)
    /\ lastTick' = NoTick
    /\ lastCmd' = NoCmd
    /\ UNCHANGED <<dstate, tickers, paused, streamer, streamers, tick, cmd,
                   pauseHeld>>
    /\ seq' = NoSeq
    /\ UNCHANGED <<engineVars, tokenStore, tokenManagerVars, streamerVars, storeVars, otherParts>>

\* OrderbookStreamer.run: the connection ended, and run() calls stop() on its way out
streamer_ends(i) ==
    /\ streamers[i] = "running"
    /\ streamers' = [streamers EXCEPT ![i] = "stopped"]
    /\ lastTick' = NoTick
    /\ lastCmd' = NoCmd
    /\ UNCHANGED <<dstate, tickers, paused, streamer, clock, tick, cmd, pauseHeld>>
    /\ seq' = NoSeq
    /\ UNCHANGED <<engineVars, tokenStore, tokenManagerVars, streamerVars, storeVars, otherParts>>

\* a consumer of the Token Store got HTTP 401 and called mark_token_invalid
token_marked_invalid ==
    /\ tokenStore # "absent"
    /\ tokenStore' = mark_token_invalid
    /\ lastTick' = NoTick
    /\ lastCmd' = NoCmd
    /\ UNCHANGED <<dstate, tickers, paused, streamer, streamers, clock, tick, cmd,
                   pauseHeld>>
    /\ seq' = NoSeq
    /\ UNCHANGED <<engineVars, tokenManagerVars, streamerVars, storeVars, otherParts>>

(***************************************************************************)
(* One Streamer session (orderbook_streamer.py, OrderbookStreamer.run)     *)
(***************************************************************************)
MaxMessages == 3

\* how connect() can end: it returns, or it raises because the credentials are
\* missing, because the handshake fails, or because the subscription cannot be sent
ConnectOutcomes == {"ok", "auth", "handshake", "send"}

\* OrderbookStreamer.__init__: no socket, not running; run() not called yet
NewStreamer ==
    [pc |-> "new", running |-> FALSE, websocket |-> "None",
     heartbeat |-> "-", receive |-> "-", message_counter |-> 0,
     connects |-> 0, ended |-> "-", stop_called |-> FALSE]

\* the first reason the session ended for (history)
EndedBy(why) == IF sr.ended = "-" THEN why ELSE sr.ended

\* run(): self.running = True, then connect() is awaited
run ==
    /\ sr.pc = "new"
    /\ sr' = [sr EXCEPT !.pc = "connect", !.running = TRUE]
    /\ UNCHANGED <<engineVars, tokenStore, daemonVars, tokenManagerVars, storeVars, otherParts>>

\* connect(): raises before the socket exists, raises after it, or returns; run()
\* then creates the heartbeat and the receive task, or goes to its finally block
connect(o) ==
    /\ sr.pc = "connect"
    /\ sr' = [sr EXCEPT
                !.connects = @ + 1,
                !.websocket = IF o \in {"ok", "send"} THEN "open" ELSE @,
                !.pc = IF o = "ok" THEN "gather" ELSE "finally",
                !.heartbeat = IF o = "ok" THEN "sleep" ELSE @,
                !.receive = IF o = "ok" THEN "recv" ELSE @,
                !.ended = IF o = "ok" THEN @ ELSE EndedBy(o)]
    /\ UNCHANGED <<engineVars, tokenStore, daemonVars, tokenManagerVars, storeVars, otherParts>>

\* receive_loop(): one message arrives on the open socket
receive_loop ==
    /\ sr.pc = "gather" /\ sr.receive = "recv" /\ sr.websocket = "open"
    /\ sr.message_counter < MaxMessages
    /\ sr' = [sr EXCEPT !.message_counter = @ + 1]
    /\ UNCHANGED <<engineVars, tokenStore, daemonVars, tokenManagerVars, storeVars, otherParts>>

\* the vendor or the network closes the socket
socket_closes ==
    /\ sr.pc = "gather" /\ sr.websocket = "open"
    /\ sr' = [sr EXCEPT !.websocket = "closed", !.ended = EndedBy("close")]
    /\ UNCHANGED <<engineVars, tokenStore, daemonVars, tokenManagerVars, storeVars, otherParts>>

\* receive_loop(): the iteration over a closed socket ends, the task is done
receive_loop_ends ==
    /\ sr.pc = "gather" /\ sr.receive = "recv" /\ sr.websocket = "closed"
    /\ sr' = [sr EXCEPT !.receive = "done"]
    /\ UNCHANGED <<engineVars, tokenStore, daemonVars, tokenManagerVars, storeVars, otherParts>>

\* heartbeat(): after its sleep the task sees a closed socket and breaks, or
\* sees running cleared and leaves the loop
heartbeat ==
    /\ sr.pc = "gather" /\ sr.heartbeat = "sleep"
    /\ sr.websocket = "closed" \/ ~sr.running
    /\ sr' = [sr EXCEPT !.heartbeat = "done"]
    /\ UNCHANGED <<engineVars, tokenStore, daemonVars, tokenManagerVars, storeVars, otherParts>>

\* run(): gather returns once both tasks are done
gather_done ==
    /\ sr.pc = "gather" /\ sr.heartbeat = "done" /\ sr.receive = "done"
    /\ sr' = [sr EXCEPT !.pc = "finally"]
    /\ UNCHANGED <<engineVars, tokenStore, daemonVars, tokenManagerVars, storeVars, otherParts>>

\* stop(): running is cleared and the socket, if there is one, is closed
stop_streamer == [sr EXCEPT !.running = FALSE,
                            !.websocket = IF @ = "None" THEN @ ELSE "closed"]

\* run(): the finally block awaits stop() and run() returns
run_finally ==
    /\ sr.pc = "finally"
    /\ sr' = [stop_streamer EXCEPT !.pc = "returned"]
    /\ UNCHANGED <<engineVars, tokenStore, daemonVars, tokenManagerVars, storeVars, otherParts>>

\* stop() called by the owner of the Streamer while run() is in progress
stop ==
    /\ sr.pc \in {"connect", "gather"}
    /\ ~sr.stop_called
    /\ sr' = [stop_streamer EXCEPT !.stop_called = TRUE, !.ended = EndedBy("stop")]
    /\ UNCHANGED <<engineVars, tokenStore, daemonVars, tokenManagerVars, storeVars, otherParts>>

\* OrderbookStreamer.get_stats: the entries _is_stream_healthy asks for.
\* The dict has 'running' and neither 'connection_status' nor 'connected',
\* so stats.get('connection_status', 'unknown') is the default.
get_stats == [running |-> sr.running, connection_status |-> connection_status]

\* OrderbookDaemon._is_stream_healthy with this Streamer as self.streamer
streamer_is_healthy ==
    LET stats == get_stats
    IN IF stats.connection_status = "connected" /\ stats.running THEN TRUE
       ELSE IF stats.connection_status \in {"retrying", "error", "stopped", "disconnected"}
       THEN FALSE
       ELSE TRUE

\* a session that is not in use: the Streamer as the other specifications hold it
StreamerIdle == sr = NewStreamer

(***************************************************************************)
(* The job store and the start of the JobManager (jobs.py, database.py)    *)
(***************************************************************************)
MaxSpan == 3
MaxBoots == 2

\* the ticker lists a job can be created with; the route does not remove a
\* symbol that is given twice
StoreTickerLists == {<<"A">>, <<"A", "B">>, <<"B", "A">>, <<"A", "A">>}

\* the status values a job is persisted with after its creation
PersistedStatus == {"QUEUED", "RUNNING", "PAUSED", "COMPLETED", "FAILED"}

\* _persist_job, as the engine calls it whenever it has changed the status
\* of a job: the status goes into the job's row
persist_job(j, st) ==
    /\ jobs[j].status # "ABSENT"
    /\ jobs[j].status # st
    /\ jobs' = [jobs EXCEPT ![j].status = st]
    /\ db' = [db EXCEPT ![j].status = st]
    /\ UNCHANGED <<pause_flag, stop_flag, w, csv, vendorN, earlyUpTo, vendorOk, jlog,
                   tokenStore, boots, daemonVars, tokenManagerVars, streamerVars, otherParts>>

\* JobManager.__init__ after a restart: _load_jobs_from_db builds the jobs
\* map from the rows that are neither COMPLETED nor FAILED, each with a task
\* list made anew from its tickers and its dates
load_jobs_from_db ==
    /\ boots < MaxBoots
    /\ boots' = boots + 1
    /\ jobs' = [j \in JobIds |->
                  IF db[j].status \in {"ABSENT", "COMPLETED", "FAILED"} THEN NoJob
                  ELSE [status |-> db[j].status, tickers |-> db[j].tickers,
                        until |-> db[j].until,
                        tasks |-> ExpandTasks(db[j].tickers, db[j].until)]]
    /\ pause_flag' = FALSE
    /\ stop_flag' = FALSE
    /\ w' = IdleWorker
    /\ UNCHANGED <<csv, vendorN, earlyUpTo, vendorOk, jlog, tokenStore, db,
                   daemonVars, tokenManagerVars, streamerVars, otherParts>>

\* an empty table: the job store as the other specifications start with it
StoreIdle == db = [j \in JobIds |-> NoRow] /\ boots = 0

(***************************************************************************)
(* _process_job with parallel_workers > 1: every pending task is submitted *)
(* to a ThreadPoolExecutor, the worker thread takes the futures as they    *)
(* complete                                                                *)
(***************************************************************************)
PoolTaskIds == 1..PoolTasks
FutureDone == {"COMPLETED", "FAILED", "PENDING"}

\* no job is being run in parallel
NoPool == [pc |-> "none", fut |-> [t \in PoolTaskIds |-> "pending"],
           yielded |-> {}, status |-> "QUEUED", returned |-> FALSE]

\* the futures a pool thread is running
PoolRunning == {t \in PoolTaskIds : pool.fut[t] = "running"}

\* `executor.submit(self._process_task, job, task) for task in pending_tasks`
pool_submit ==
    /\ pool.pc = "submit"
    /\ pool' = [pool EXCEPT !.pc = "wait", !.fut = [t \in PoolTaskIds |-> "queued"]]
    /\ UNCHANGED <<coreVars, lateVars, codecVars, sinkVars, clockVars>>

\* a pool thread takes the next work item off the executor's queue: nothing
\* but a free thread is needed, the queue is not emptied by shutdown()
pool_task_starts(t) ==
    /\ pool.pc \in {"wait", "exit"}
    /\ pool.fut[t] = "queued"
    /\ \A u \in PoolTaskIds : u < t => pool.fut[u] # "queued"
    /\ Cardinality(PoolRunning) < PoolWorkers
    /\ pool' = [pool EXCEPT !.fut[t] = "running"]
    /\ UNCHANGED <<coreVars, lateVars, codecVars, sinkVars, clockVars>>

\* _process_task returns in a pool thread: the task is COMPLETED, FAILED, or
\* PENDING again with the job PAUSED (login required)
pool_task_ends(t, o) ==
    /\ pool.fut[t] = "running"
    /\ pool' = [pool EXCEPT !.fut[t] = o,
                            !.status = IF o = "PENDING" THEN "PAUSED" ELSE @]
    /\ UNCHANGED <<coreVars, lateVars, codecVars, sinkVars, clockVars>>

\* one turn of `for future in as_completed(future_to_task)`: with the stop
\* flag up the job is PAUSED, executor.shutdown(wait=False), return
as_completed(t) ==
    /\ pool.pc = "wait"
    /\ pool.fut[t] \in FutureDone
    /\ t \notin pool.yielded
    /\ ~pause_flag \/ stop_flag
    /\ IF stop_flag
       THEN pool' = [pool EXCEPT !.status = "PAUSED", !.pc = "exit", !.returned = TRUE]
       ELSE pool' = [pool EXCEPT !.yielded = @ \cup {t},
                                 !.pc = IF pool.yielded \cup {t} = PoolTaskIds
                                        THEN "exit" ELSE "wait"]
    /\ UNCHANGED <<coreVars, lateVars, codecVars, sinkVars, clockVars>>

\* the end of the `with` block, ThreadPoolExecutor.__exit__: shutdown(wait=True)
\* joins the pool threads, which first run what is left in the queue; then
\* the tail of _process_job unless the loop has returned
pool_exit ==
    /\ pool.pc = "exit"
    /\ \A t \in PoolTaskIds : pool.fut[t] \in FutureDone
    /\ pool' = [pool EXCEPT !.pc = "done",
                            !.status = IF pool.returned THEN @ ELSE FinishedStatus(@)]
    /\ UNCHANGED <<coreVars, lateVars, codecVars, sinkVars, clockVars>>

PoolIdle == pool = NoPool

(***************************************************************************)
(* The frame codec.  A Python str is the sequence of its code points, a    *)
(* bytes value the sequence of its bytes; both are written here from       *)
(* one-character strings.                                                  *)
(***************************************************************************)
Chars == {"A", "B", "D", "I", "J", "O", "k", "t", "x", "#", "|", ";", ":", " ",
          "0", "1", "2", "3", "4", "5", "6", "7", "8", "9"}
Ord(c) ==
    CASE c = "A" -> 65 [] c = "B" -> 66 [] c = "D" -> 68 [] c = "I" -> 73
      [] c = "J" -> 74 [] c = "O" -> 79 [] c = "k" -> 107 [] c = "t" -> 116
      [] c = "x" -> 120 [] c = "#" -> 35 [] c = "|" -> 124 [] c = ";" -> 59
      [] c = ":" -> 58 [] c = " " -> 32
      [] c = "0" -> 48 [] c = "1" -> 49 [] c = "2" -> 50 [] c = "3" -> 51
      [] c = "4" -> 52 [] c = "5" -> 53 [] c = "6" -> 54 [] c = "7" -> 55
      [] c = "8" -> 56 [] c = "9" -> 57
Text(cs) == [i \in 1..Len(cs) |-> Ord(cs[i])]

\* str.encode('utf-8') of a str of code points below 128, and
\* bytes.decode('utf-8'), which raises on a byte that starts no character
Utf8Encode(str) == str
Utf8Valid(bytes) == \A i \in 1..Len(bytes) : bytes[i] < 128
PyStr(str) == [kind |-> "str", v |-> str]
PyBytes(bytes) == [kind |-> "bytes", v |-> bytes]
PyInt(n) == [kind |-> "int", v |-> n]

\* str(user_id) for user_id >= 0
RECURSIVE str(_)
str(n) == IF n < 10 THEN <<48 + n>> ELSE str(n \div 10) \o <<48 + (n % 10)>>

\* _encode_varint
RECURSIVE encode_varint(_)
encode_varint(value) ==
    IF value > 127 THEN <<(value % 128) + 128>> \o encode_varint(value \div 128)
    ELSE <<value % 128>>

\* 2^n
RECURSIVE Pow2(_)
Pow2(n) == IF n = 0 THEN 1 ELSE 2 * Pow2(n - 1)

\* _decode_varint(data, pos), pos counted from 0: the value and the position
\* after it, or no value when the data ends first (ValueError)
RECURSIVE decode_varint_loop(_, _, _, _)
decode_varint_loop(data, pos, result, shift) ==
    IF pos >= Len(data) THEN [ok |-> FALSE, value |-> 0, pos |-> pos]
    ELSE LET byte == data[pos + 1]
             r == result + (byte % 128) * Pow2(shift)
         IN IF byte < 128 THEN [ok |-> TRUE, value |-> r, pos |-> pos + 1]
            ELSE decode_varint_loop(data, pos + 1, r, shift + 7)
decode_varint(data, pos) == decode_varint_loop(data, pos, 0, 0)

\* _encode_field_string
encode_field_string(field_number, value) ==
    LET value_bytes == Utf8Encode(value)
    IN encode_varint(field_number * 8 + 2) \o encode_varint(Len(value_bytes)) \o value_bytes

\* the concatenation of _encode_field_string(2, prefix + ticker) over a list
RECURSIVE encode_each(_, _)
encode_each(prefix, tks) ==
    IF tks = <<>> THEN <<>>
    ELSE encode_field_string(2, prefix \o Head(tks)) \o encode_each(prefix, Tail(tks))

\* field2_inner of encode_websocket_request
field2_inner(tks) ==
    encode_each(<<>>, tks) \o encode_each(Text(<<"2">>), tks)
        \o encode_each(Text(<<":">>), tks) \o encode_each(Text(<<"J">>), tks)

\* encode_websocket_request writing the four forms ticker by ticker
RECURSIVE field2_by_ticker(_)
field2_by_ticker(tks) ==
    IF tks = <<>> THEN <<>>
    ELSE encode_field_string(2, Head(tks))
            \o encode_field_string(2, Text(<<"2">>) \o Head(tks))
            \o encode_field_string(2, Text(<<":">>) \o Head(tks))
            \o encode_field_string(2, Text(<<"J">>) \o Head(tks))
            \o field2_by_ticker(Tail(tks))
encode_websocket_request_by_ticker(user_id, tks, trading_key, access_token) ==
    encode_field_string(1, str(user_id))
        \o <<18>> \o encode_varint(Len(field2_by_ticker(tks))) \o field2_by_ticker(tks)
        \o encode_field_string(3, trading_key)
        \o encode_field_string(5, access_token)

\* encode_websocket_request
encode_websocket_request(user_id, tks, trading_key, access_token) ==
    encode_field_string(1, str(user_id))
        \o <<18>> \o encode_varint(Len(field2_inner(tks))) \o field2_inner(tks)
        \o encode_field_string(3, trading_key)
        \o encode_field_string(5, access_token)

\* data[pos:pos + length - 1]: the slice without its last byte
SliceShort(data, pos, length) ==
    SubSeq(data, pos + 1, IF pos + length > Len(data) THEN Len(data) - 1 ELSE pos + length - 1)

\* data[pos:pos + length], pos counted from 0: cut short at the end of data
Slice(data, pos, length) ==
    SubSeq(data, pos + 1, IF pos + length > Len(data) THEN Len(data) ELSE pos + length)

\* fields[field_number] = value
Put(fields, field_number, value) ==
    [k \in (DOMAIN fields) \cup {field_number} |->
        IF k = field_number THEN value ELSE fields[k]]
EmptyDict == [k \in {} |-> PyInt(0)]

\* value.decode('utf-8'), the bytes kept when that raises
DecodeText(value) == IF Utf8Valid(value) THEN PyStr(value) ELSE PyBytes(value)

\* dict.get(key, '')
Get(fields, key) == IF key \in DOMAIN fields THEN fields[key] ELSE PyStr(<<>>)

PyNone == [kind |-> "None"]

\* decode_nested_orderbook: the loop, then the dict built from sub-fields
\* 1 and 2; None when a varint runs off the end
RECURSIVE decode_nested_loop(_, _, _)
decode_nested_loop(data, pos, fields) ==
    IF pos >= Len(data) THEN [kind |-> "dict", fields |-> fields]
    ELSE LET t == decode_varint(data, pos)
             field_number == t.value \div 8
             wire_type == t.value % 8
         IN IF ~t.ok THEN PyNone
            ELSE IF wire_type = 0
            THEN LET v == decode_varint(data, t.pos)
                 IN IF ~v.ok THEN PyNone
                    ELSE decode_nested_loop(data, v.pos, Put(fields, field_number, PyInt(v.value)))
            ELSE IF wire_type = 2
            THEN LET l == decode_varint(data, t.pos)
                 IN IF ~l.ok THEN PyNone
                    ELSE decode_nested_loop(data, l.pos + l.value,
                             Put(fields, field_number, DecodeText(Slice(data, l.pos, l.value))))
            ELSE decode_nested_loop(data, t.pos, fields)
decode_nested_orderbook(data) ==
    LET r == decode_nested_loop(data, 0, EmptyDict)
    IN IF r.kind = "None" THEN PyNone
       ELSE [kind |-> "nested", ticker |-> Get(r.fields, 1), orderbook |-> Get(r.fields, 2),
             raw_fields |-> r.fields]

\* decode_orderbook_message: the top-level fields, or what field 10 holds as
\* soon as it is met, or None when a varint runs off the end
RECURSIVE decode_loop(_, _, _)
decode_loop(data, pos, fields) ==
    IF pos >= Len(data) THEN [kind |-> "dict", fields |-> fields]
    ELSE LET t == decode_varint(data, pos)
             field_number == t.value \div 8
             wire_type == t.value % 8
         IN IF ~t.ok THEN PyNone
            ELSE IF wire_type = 0
            THEN LET v == decode_varint(data, t.pos)
                 IN IF ~v.ok THEN PyNone
                    ELSE decode_loop(data, v.pos, Put(fields, field_number, PyInt(v.value)))
            ELSE IF wire_type = 2
            THEN LET l == decode_varint(data, t.pos)
                 IN IF ~l.ok THEN PyNone
                    ELSE IF field_number = 10
                    THEN decode_nested_orderbook(Slice(data, l.pos, l.value))
                    ELSE decode_loop(data, l.pos + l.value,
                             Put(fields, field_number, DecodeText(Slice(data, l.pos, l.value))))
            ELSE [kind |-> "dict", fields |-> fields]
decode_orderbook_message(data) == decode_loop(data, 0, EmptyDict)

\* a frame made of length-delimited string fields: the fields one after another
RECURSIVE encode_fields(_)
encode_fields(fs) ==
    IF fs = <<>> THEN <<>>
    ELSE encode_field_string(Head(fs)[1], Head(fs)[2]) \o encode_fields(Tail(fs))

\* what the codec is given
UserIds == {0, 7, 4826457}
SubscribedTickers == {Text(<<"A">>), Text(<<"B", "B">>)}
SubscribedLists == UNION {[1..n -> SubscribedTickers] : n \in 0..MaxSubscribed}
TradingKeys == {<<>>, Text(<<"k">>)}
AccessTokens == {<<>>, Text(<<"t">>), [i \in 1..LongLen |-> 120]}
FieldNumbers == {1, 2, 10, 16}
FieldTexts == {<<>>, Text(<<"A">>), Text(<<"A", "B">>)}
FieldLists == UNION {[1..n -> FieldNumbers \X FieldTexts] : n \in 1..MaxFields}

NoCodec == [pc |-> "none", given |-> <<>>, frame |-> <<>>, decoded |-> PyNone]

\* the subscription is encoded
encode(user_id, tks, trading_key, access_token) ==
    /\ cx.pc = "none"
    /\ cx' = [pc |-> "encoded",
              given |-> <<"subscription", user_id, tks, trading_key, access_token>>,
              frame |-> encode_websocket_request(user_id, tks, trading_key, access_token),
              decoded |-> PyNone]
    /\ UNCHANGED <<coreVars, lateVars, poolVars, sinkVars, clockVars>>

\* a frame of string fields is put together
frame_of_strings(fs) ==
    /\ cx.pc = "none"
    /\ cx' = [pc |-> "encoded", given |-> <<"strings", fs>>,
              frame |-> encode_fields(fs), decoded |-> PyNone]
    /\ UNCHANGED <<coreVars, lateVars, poolVars, sinkVars, clockVars>>

\* the frame is given to decode_orderbook_message
decode ==
    /\ cx.pc = "encoded"
    /\ cx' = [cx EXCEPT !.pc = "decoded", !.decoded = decode_orderbook_message(cx.frame)]
    /\ UNCHANGED <<coreVars, lateVars, poolVars, sinkVars, clockVars>>

\* the next use of the codec
codec_again ==
    /\ cx.pc = "decoded"
    /\ cx' = NoCodec
    /\ UNCHANGED <<coreVars, lateVars, poolVars, sinkVars, clockVars>>

CodecIdle == cx = NoCodec

(***************************************************************************)
(* Inbound frames: handle_message, _parse_and_store_orderbook and the      *)
(* orderbook CSV files of OrderbookCSVStorage                              *)
(***************************************************************************)
\* str.strip (blanks), str.upper and str.split on a str of code points
Blank(c) == c = 32
str_strip(t) ==
    LET keep == {i \in 1..Len(t) : ~Blank(t[i])}
    IN IF keep = {} THEN <<>>
       ELSE SubSeq(t, CHOOSE i \in keep : \A k \in keep : i <= k,
                      CHOOSE i \in keep : \A k \in keep : i >= k)
str_upper(t) == [i \in 1..Len(t) |-> IF t[i] >= 97 /\ t[i] <= 122 THEN t[i] - 32 ELSE t[i]]
RECURSIVE str_split(_, _)
str_split(t, sep) ==
    LET at == {i \in 1..Len(t) : t[i] = sep}
    IN IF at = {} THEN <<t>>
       ELSE LET k == CHOOSE i \in at : \A h \in at : i <= h
            IN <<SubSeq(t, 1, k - 1)>> \o str_split(SubSeq(t, k + 1, Len(t)), sep)

\* int(t) and float(t) on a str of digits and blanks: the number, or
\* ValueError
RECURSIVE DigitsValue(_)
DigitsValue(t) == IF t = <<>> THEN 0 ELSE 10 * DigitsValue(SubSeq(t, 1, Len(t) - 1)) + (t[Len(t)] - 48)
ParseNumber(t) ==
    LET d == str_strip(t)
        ok == d # <<>> /\ \A i \in 1..Len(d) : d[i] >= 48 /\ d[i] <= 57
    IN [ok |-> ok, v |-> IF ok THEN DigitsValue(d) ELSE 0]

\* fields.get(key) on what decode_orderbook_message returned: the nested
\* dict has the keys 1, 2 and 'raw_fields' only
Lookup(fields, key) ==
    IF fields.kind = "dict"
    THEN IF key \in DOMAIN fields.fields THEN fields.fields[key] ELSE PyNone
    ELSE IF fields.kind = "nested"
    THEN IF key = 1 THEN fields.ticker ELSE IF key = 2 THEN fields.orderbook ELSE PyNone
    ELSE PyNone

\* the truth value of a str, bytes or None
PyTruthy(x) == x.kind \in {"str", "bytes"} /\ x.v # <<>>

\* `if not fields`: None and the empty dict
NoFields(fields) ==
    fields.kind = "None" \/ (fields.kind = "dict" /\ DOMAIN fields.fields = {})

\* datetime.now().isoformat()
WallClock == [kind |-> "clock", v |-> <<>>]

\* `fields.get(5) or fields.get(9) or datetime.now().isoformat()`
Timestamp(fields) ==
    IF PyTruthy(Lookup(fields, 5)) THEN Lookup(fields, 5)
    ELSE IF PyTruthy(Lookup(fields, 9)) THEN Lookup(fields, 9)
    ELSE WallClock

\* rows of an orderbook CSV file
HeaderRow == [kind |-> "header", timestamp |-> WallClock, price |-> 0, lots |-> 0,
              total_value |-> 0, side |-> <<>>]
DataRow(timestamp, price, lots, total_value, side) ==
    [kind |-> "data", timestamp |-> timestamp, price |-> price, lots |-> lots,
     total_value |-> total_value, side |-> side]

\* _parse_and_store_orderbook: the rows it gives to write_orderbook_level, in
\* order.  Fewer than four parts: nothing; blank levels, levels of fewer than
\* three parts and levels whose numbers do not parse are passed over.
RECURSIVE LevelRows(_, _, _, _)
LevelRows(parts, i, side, timestamp) ==
    IF i > Len(parts) THEN <<>>
    ELSE LET level == str_strip(parts[i])
             level_parts == str_split(level, 59)
             rest == LevelRows(parts, i + 1, side, timestamp)
         IN IF level = <<>> \/ Len(level_parts) < 3 THEN rest
            ELSE LET price == ParseNumber(level_parts[1])
                     lots == ParseNumber(level_parts[2])
                     total_value == ParseNumber(level_parts[3])
                 IN IF price.ok /\ lots.ok /\ total_value.ok
                    THEN <<DataRow(timestamp, price.v, lots.v, total_value.v, side)>> \o rest
                    ELSE rest
parse_and_store_orderbook(raw_data, timestamp) ==
    LET parts == str_split(raw_data, 124)
    IN IF Len(parts) < 4 THEN <<>>
       ELSE LevelRows(parts, 4, str_strip(parts[3]), timestamp)

\* OrderbookCSVStorage._get_filename
orderbook_filename(ticker, target_date) == <<target_date, ticker>>

\* `filepath.exists()` answering no for every file
never_exists(fs, name) == FALSE

\* `filepath.exists()`
exists(fs, name) == name \in DOMAIN fs

\* csv.writer.writerow leaving out a row equal to the last one of the file
writerow_once(rows, row) ==
    IF rows # <<>> /\ rows[Len(rows)] = row THEN rows ELSE Append(rows, row)

\* csv.writer.writerow on a file opened for appending
writerow(rows, row) == Append(rows, row)

\* the storage as one value
Storage(fs, handles) == [files |-> fs, file_handles |-> handles]

\* OrderbookCSVStorage._get_or_create_writer: the open file of the ticker
\* when its date is today's, else today's file opened for appending, with
\* the header row when the file did not exist
get_or_create_writer(st, ticker, current_date) ==
    IF ticker \in DOMAIN st.file_handles /\ st.file_handles[ticker] = current_date
    THEN st
    ELSE LET name == orderbook_filename(ticker, current_date)
             file_exists == exists(st.files, name)
             rows == IF name \in DOMAIN st.files THEN st.files[name] ELSE <<>>
         IN Storage([f \in (DOMAIN st.files) \cup {name} |->
                        IF f = name
                        THEN (IF file_exists THEN rows ELSE writerow(rows, HeaderRow))
                        ELSE st.files[f]],
                    [t \in (DOMAIN st.file_handles) \cup {ticker} |->
                        IF t = ticker THEN current_date ELSE st.file_handles[t]])

\* OrderbookCSVStorage.write_orderbook_level
write_orderbook_level(st, ticker, row, current_date) ==
    LET opened == get_or_create_writer(st, ticker, current_date)
        name == orderbook_filename(ticker, opened.file_handles[ticker])
    IN Storage([opened.files EXCEPT ![name] = writerow(@, row)], opened.file_handles)

\* the calls of write_orderbook_level for the rows of one frame, in order
RECURSIVE WriteRows(_, _, _, _)
WriteRows(st, ticker, rows, current_date) ==
    IF rows = <<>> THEN st
    ELSE WriteRows(write_orderbook_level(st, ticker, Head(rows), current_date),
                   ticker, Tail(rows), current_date)

\* what handle_message does with a decoded frame: the ticker and the rows
\* it stores, no rows when the frame is dropped
Handled(fields) ==
    LET ticker == IF Lookup(fields, 1).kind = "str"
                  THEN str_upper(str_strip(Lookup(fields, 1).v)) ELSE <<>>
        orderbook_raw == Lookup(fields, 2)
    IN IF NoFields(fields) \/ ticker = <<>> \/ ~PyTruthy(orderbook_raw)
       THEN [ticker |-> ticker, rows |-> <<>>]
       ELSE [ticker |-> ticker,
             rows |-> parse_and_store_orderbook(orderbook_raw.v, Timestamp(fields))]

\* the frames the gateway sends: ticker and payload inside field 10 with the
\* stamps before it at the top level, or ticker and payload at the top
\* level followed by the stamps
FrameTickers == {Text(<<"A">>), Text(<<" ", "B">>)}
Payloads ==
    {Text(<<"#", "O", "|", "A", "|", "B", "I", "D", "|", "1", ";", "2", ";", "3", "|", "4", ";", "5", ";", "6">>),
     Text(<<"#", "O", "|", "A", "|", "B", "I", "D", "|", "1", ";", "2", ";", "3", "|", "1", ";", "2", ";", "3">>),
     Text(<<"#", "O", "|", "A", "|", "B", "I", "D", "|", "1", ";", "x", ";", "3", "|", " ", "|", "4", ";", "5", ";", "6">>),
     Text(<<"#", "O", "|", "A", "|", "B", "I", "D">>)}
Stamp5 == Text(<<"5">>)
Stamp9 == Text(<<"9">>)
Stamps(ts) ==
    (IF ts \in {"f5", "both"} THEN encode_field_string(5, Stamp5) ELSE <<>>)
        \o (IF ts \in {"f9", "both"} THEN encode_field_string(9, Stamp9) ELSE <<>>)
InboundFrame(shape, ticker, payload, ts) ==
    LET body == encode_field_string(1, ticker) \o encode_field_string(2, payload)
    IN IF shape = "nested"
       THEN Stamps(ts) \o <<82>> \o encode_varint(Len(body)) \o body
       ELSE body \o Stamps(ts)

NoFrame == [shape |-> "-", ts |-> "-", ticker |-> <<>>, rows |-> <<>>, reopened |-> FALSE]

\* OrderbookStreamer.handle_message on one frame: decode, take the ticker,
\* the payload and the timestamp, store every level
handle_message(shape, tk, payload, ts) ==
    LET fields == decode_orderbook_message(InboundFrame(shape, tk, payload, ts))
        h == Handled(fields)
        st == WriteRows(Storage(files, file_handles), h.ticker, h.rows, today)
    IN /\ handled < MaxFrames
       /\ handled' = handled + 1
       /\ files' = st.files
       /\ file_handles' = st.file_handles
       /\ appended' = appended \o [i \in 1..Len(h.rows) |-> <<h.ticker, h.rows[i]>>]
       /\ lastFrame' = [shape |-> shape, ts |-> ts, ticker |-> h.ticker, rows |-> h.rows,
                         reopened |-> /\ h.rows # <<>>
                                      /\ exists(files, orderbook_filename(h.ticker, today))
                                      /\ h.ticker \notin DOMAIN file_handles]
       /\ UNCHANGED today
       /\ UNCHANGED <<coreVars, lateVars, poolVars, codecVars, clockVars>>

\* midnight passes
date_rollover ==
    /\ today < MaxDates
    /\ today' = today + 1
    /\ UNCHANGED <<files, file_handles, appended, handled, lastFrame>>
    /\ UNCHANGED <<coreVars, lateVars, poolVars, codecVars, clockVars>>

\* OrderbookCSVStorage.close_all, as OrderbookStreamer.stop calls it
close_all ==
    /\ file_handles' = [t \in {} |-> 0]
    /\ UNCHANGED <<files, today, appended, handled, lastFrame>>
    /\ UNCHANGED <<coreVars, lateVars, poolVars, codecVars, clockVars>>

\* OrderbookStreamer.__init__ of the next Streamer: a new OrderbookCSVStorage
\* with no open file
new_storage ==
    /\ file_handles' = [t \in {} |-> 0]
    /\ UNCHANGED <<files, today, appended, handled, lastFrame>>
    /\ UNCHANGED <<coreVars, lateVars, poolVars, codecVars, clockVars>>

SinkIdle ==
    /\ files = [f \in {} |-> <<>>]
    /\ file_handles = [t \in {} |-> 0]
    /\ today = 1
    /\ appended = <<>>
    /\ handled = 0
    /\ lastFrame = NoFrame

(***************************************************************************)
(* The Market Clock: _get_market_status on an instant given as the day of  *)
(* the week (Monday is 0) and the minute of the day in WIB.  The limits of *)
(* the sessions are whole minutes, so the seconds of the instant do not    *)
(* matter.                                                                 *)
(***************************************************************************)
Weekdays == 0..6
HM(h, m) == 60 * h + m

session1_open(weekday) == HM(8, 55)
session1_close(weekday) == IF weekday < 4 THEN HM(12, 5) ELSE HM(11, 35)
session2_open_every_day(weekday) == HM(13, 25)
session2_open(weekday) == IF weekday < 4 THEN HM(13, 25) ELSE HM(13, 55)
session2_close(weekday) == HM(15, 54)

\* OrderbookDaemon._get_market_status()['reason']
get_market_status(weekday, current_time) ==
    IF weekday >= 5 THEN "Weekend"
    ELSE IF session1_open(weekday) <= current_time /\ current_time < session1_close(weekday)
    THEN "Session 1"
    ELSE IF session2_open(weekday) <= current_time /\ current_time < session2_close(weekday)
    THEN "Session 2"
    ELSE IF session1_close(weekday) <= current_time /\ current_time < session2_open(weekday)
    THEN "Lunch Break"
    ELSE IF current_time < session1_open(weekday) THEN "Pre-Market"
    ELSE "After Hours"

\* OrderbookDaemon._get_market_status()['time_until_next'] in minutes, for an
\* instant on a whole minute (the code counts seconds): 0 while a session is
\* open, else the time to next_open
time_until_next(weekday, current_time) ==
    LET reason == get_market_status(weekday, current_time)
    IN IF reason = "Weekend"
       THEN (7 - weekday) * 1440 + HM(8, 55) - current_time
       ELSE IF reason \in {"Session 1", "Session 2"} THEN 0
       ELSE IF reason = "Lunch Break" THEN session2_open(weekday) - current_time
       ELSE IF reason = "Pre-Market" THEN session1_open(weekday) - current_time
       ELSE (IF weekday = 4 THEN 3 ELSE 1) * 1440 + HM(8, 55) - current_time

NoInstant == [weekday |-> 0, minute |-> 0, reason |-> "-", time_until_next |-> 0]

\* the scheduler asks for the market status at the instant
ask_market_status ==
    /\ mc.reason = "-"
    /\ mc' = [mc EXCEPT !.reason = get_market_status(mc.weekday, mc.minute),
                        !.time_until_next = time_until_next(mc.weekday, mc.minute)]
    /\ UNCHANGED <<coreVars, lateVars, poolVars, codecVars, sinkVars>>

\* a minute passes
minute_passes ==
    /\ mc.reason # "-"
    /\ mc' = IF mc.minute = 1439
             THEN [NoInstant EXCEPT !.weekday = (mc.weekday + 1) % 7]
             ELSE [NoInstant EXCEPT !.weekday = mc.weekday, !.minute = mc.minute + 1]
    /\ UNCHANGED <<coreVars, lateVars, poolVars, codecVars, sinkVars>>

ClockIdle == mc = NoInstant

(***************************************************************************)
(* Token Store in detail (auth.py, TokenManager)                           *)
(***************************************************************************)
MaxNow == 2

\* Python's None, and a value that is there
None == <<>>
Some(x) == <<x>>

\* the exp claim of a bearer's payload: absent, or an integer
ExpValues == {None} \cup {Some(e) : e \in (-1)..(MaxNow + 1)}

\* what the text of a bearer can be: "jwt" has three segments whose middle one
\* is the base64url text of a JSON object; "segments" has not three segments;
\* "base64" has a middle segment that does not decode; "lenient" has
\* characters outside the base64url alphabet in the text of a JSON object;
\* "json" decodes to bytes that are not JSON; "not_object" decodes to a JSON
\* list, string, number, boolean or null
Shapes == {"jwt", "segments", "base64", "lenient", "json", "not_object"}
Bearers ==
    {[shape |-> "jwt", exp |-> e] : e \in ExpValues}
        \cup {[shape |-> s, exp |-> None] : s \in Shapes \ {"jwt"}}
Malformed(b) == b.shape # "jwt"

\* the cookies argument of set_token: None, or a cookie text
CookieArgs == {"None", "c1", "c2"}

\* decode_token: raises, or returns what json.loads made of the middle
\* segment.  The decoder drops characters outside its alphabet, so a
\* "lenient" text yields its object; a JSON value that is no object is
\* returned as it is.
decode_token(b) ==
    CASE b.shape \in {"segments", "base64", "json"} -> [raises |-> TRUE, dict |-> FALSE, exp |-> None]
      [] b.shape = "not_object" -> [raises |-> FALSE, dict |-> FALSE, exp |-> None]
      [] OTHER -> [raises |-> FALSE, dict |-> TRUE, exp |-> b.exp]

\* Python's truth of self.exp: None and 0 are false
Truthy(x) == x # None /\ x[1] # 0

\* is_expired: no exp, or an exp of 0, is "can't tell, assume valid"
is_expired(t, clk) ==
    IF ~Truthy(t.exp) THEN FALSE ELSE clk >= t.exp[1]

\* get_valid_token on the detailed store: the bearer, or None
TokenManager_get_valid_token(t, clk) ==
    IF t.token = None THEN None
    ELSE IF is_expired(t, clk) THEN None
    ELSE t.token

NoTokenManager == [token |-> None, exp |-> None, issued_at |-> None, cookies |-> "None"]
NoLastSet == [called |-> FALSE, bearer |-> None, cookies |-> "None", success |-> FALSE]

\* _save_token: the four fields as the document
save_token(t) == [token |-> t.token, exp |-> t.exp, cookies |-> t.cookies, issued_at |-> t.issued_at]

\* set_token succeeds: decode_token returned and payload.get('exp') worked
set_token_success(b) == decode_token(b).dict

\* set_token(token, cookies): a decode error leaves before any assignment; a
\* payload that is no object raises at payload.get after self.token was
\* assigned; otherwise the fields are assigned and saved
TokenManager_set_token(b, c) ==
    LET d == decode_token(b)
        t == [token |-> Some(b), exp |-> d.exp, issued_at |-> Some(now),
              cookies |-> IF c # "None" THEN c ELSE tm.cookies]
    IN  /\ tm' = IF d.raises THEN tm
                 ELSE IF ~d.dict THEN [tm EXCEPT !.token = Some(b)]
                 ELSE t
        /\ token_file' = IF d.dict THEN save_token(t) ELSE token_file
        /\ lastSet' = [called |-> TRUE, bearer |-> Some(b), cookies |-> c, success |-> d.dict]
        /\ UNCHANGED now
        /\ UNCHANGED <<engineVars, tokenStore, daemonVars, streamerVars, storeVars, otherParts>>

\* mark_token_invalid clearing the cookies with the token
TokenManager_mark_token_invalid_all ==
    LET t == NoTokenManager
    IN  /\ tm' = t
        /\ token_file' = save_token(t)
        /\ lastSet' = NoLastSet
        /\ UNCHANGED now
        /\ UNCHANGED <<engineVars, tokenStore, daemonVars, streamerVars, storeVars, otherParts>>

\* mark_token_invalid: token, exp and issued_at are cleared and saved; the
\* cookies are not touched
TokenManager_mark_token_invalid ==
    LET t == [tm EXCEPT !.token = None, !.exp = None, !.issued_at = None]
    IN  /\ tm' = t
        /\ token_file' = save_token(t)
        /\ lastSet' = NoLastSet
        /\ UNCHANGED now
        /\ UNCHANGED <<engineVars, tokenStore, daemonVars, streamerVars, storeVars, otherParts>>

\* TokenManager.get_cookies
get_cookies(t) == t.cookies

\* OrderbookStreamer.connect: the Cookie header of the WebSocket handshake,
\* sent when get_cookies() is true (None when it is not sent)
connect_cookie_header(t) ==
    LET cookies == get_cookies(t)
    IN IF cookies # "None" THEN Some(cookies) ELSE None

\* TokenManager.__init__ after a restart: the fields come from the document
load_token ==
    /\ tm' = [token |-> token_file.token, exp |-> token_file.exp,
              issued_at |-> token_file.issued_at, cookies |-> token_file.cookies]
    /\ tm' # tm
    /\ UNCHANGED <<token_file, now, lastSet>>
    /\ UNCHANGED <<engineVars, tokenStore, daemonVars, streamerVars, storeVars, otherParts>>

\* a second passes
second_passes ==
    /\ now < MaxNow
    /\ now' = now + 1
    /\ UNCHANGED <<tm, token_file, lastSet>>
    /\ UNCHANGED <<engineVars, tokenStore, daemonVars, streamerVars, storeVars, otherParts>>

\* the store as the other specifications hold it: the abstract one stands for it
TokenManagerIdle ==
    /\ tm = NoTokenManager /\ token_file = save_token(NoTokenManager)
    /\ now = 1 /\ lastSet = NoLastSet

\* no job, no worker activity: the engine as the Supervisor's specifications hold it
EngineIdle ==
    /\ jobs = [j \in JobIds |-> NoJob]
    /\ pause_flag = FALSE
    /\ stop_flag = FALSE
    /\ w = IdleWorker
    /\ csv = [f \in FileNames |-> <<>>]
    /\ vendorN = 0
    /\ earlyUpTo = 0
    /\ vendorOk = TRUE
    /\ jlog = [j \in JobIds |-> [mid |-> "no", other |-> FALSE, cancelled |-> FALSE]]

\* no watchlist, nothing scheduled: the Supervisor as the engine's specification holds it
DaemonIdle ==
    /\ dstate = "no_tickers" /\ tickers = <<>> /\ paused = FALSE
    /\ streamer = 0 /\ streamers = [i \in StreamerIds |-> "stopped"]
    /\ clock = "pre" /\ tick = SleepingTick /\ cmd = IdleCmd
    /\ lastTick = NoTick /\ lastCmd = NoCmd /\ pauseHeld = FALSE
    /\ seq = NoSeq

(***************************************************************************)
(* Threads of the engine beside its worker, and one page fetch              *)
(***************************************************************************)
\* JobManager.worker_thread names one thread, the model's w.  start_worker
\* does not ask whether that thread is alive: the thread it replaces runs on
\* in _worker_loop and is held here, at the grain of whole tasks.
NoThread == [pc |-> "none", job |-> 0, pending |-> <<>>, pos |-> 0]

\* the worker thread as the thread start_worker leaves behind
Orphaned(th) ==
    [pc |-> IF th.pc = "fetch" THEN "task" ELSE th.pc,
     job |-> th.job, pending |-> th.pending, pos |-> th.pos]

\* the thread left behind is in _worker_loop
OrphanAlive == orphan.pc \notin {"none", "dead"}

besideEngine == <<tokenStore, daemonVars, tokenManagerVars, streamerVars, storeVars,
                  poolVars, codecVars, sinkVars, clockVars, saving, fp>>

\* JobManager.start_worker: clear the stop flag, make a thread, start it
start_worker ==
    /\ ~OrphanAlive
    /\ stop_flag' = FALSE
    /\ orphan' = IF WorkerAlive THEN Orphaned(w) ELSE orphan
    /\ w' = IdleWorker
    /\ UNCHANGED <<jobs, pause_flag, csv, vendorN, earlyUpTo, vendorOk, jlog, besideEngine>>

\* _worker_loop in the thread left behind: leave once the stop flag is seen
orphan_exit ==
    /\ orphan.pc = "idle"
    /\ stop_flag
    /\ orphan' = [orphan EXCEPT !.pc = "dead"]
    /\ UNCHANGED <<engineVars, besideEngine>>

\* _worker_loop: `for job in self.jobs.values()` finds the first QUEUED job
orphan_worker_loop ==
    /\ orphan.pc = "idle"
    /\ ~stop_flag
    /\ \E j \in JobIds : jobs[j].status = "QUEUED"
    /\ LET j == CHOOSE k \in JobIds :
                  jobs[k].status = "QUEUED" /\ \A m \in 1..(k - 1) : jobs[m].status # "QUEUED"
       IN orphan' = [orphan EXCEPT !.pc = "found", !.job = j]
    /\ UNCHANGED <<engineVars, besideEngine>>

\* the head of _process_job(next_job): the job is RUNNING, whatever it was
\* by now, and its pending tasks are listed
orphan_process_job ==
    /\ orphan.pc = "found"
    /\ jobs' = [jobs EXCEPT ![orphan.job].status = "RUNNING"]
    /\ orphan' = [orphan EXCEPT !.pc = "loop", !.pending = PendingTasks(orphan.job), !.pos = 1]
    /\ UNCHANGED <<pause_flag, stop_flag, w, csv, vendorN, earlyUpTo, vendorOk, jlog, besideEngine>>

\* one turn of the sequential task loop of _process_job, as in process_job
orphan_next_task ==
    /\ orphan.pc = "loop"
    /\ IF orphan.pos > Len(orphan.pending)
       THEN /\ jobs' = [jobs EXCEPT ![orphan.job].status = FinishedStatus(jobs[orphan.job].status)]
            /\ orphan' = [NoThread EXCEPT !.pc = "idle"]
       ELSE /\ ~(pause_flag /\ ~stop_flag)
            /\ IF stop_flag
               THEN /\ jobs' = [jobs EXCEPT ![orphan.job].status = "PAUSED"]
                    /\ orphan' = [NoThread EXCEPT !.pc = "idle"]
               ELSE /\ jobs' = [jobs EXCEPT ![orphan.job].tasks[orphan.pending[orphan.pos]].status
                                                = "RUNNING"]
                    /\ orphan' = [orphan EXCEPT !.pc = "task"]
    /\ UNCHANGED <<pause_flag, stop_flag, w, csv, vendorN, earlyUpTo, vendorOk, jlog, besideEngine>>

\* fetch_running_trade with every page answered 200: the trades collected
\* from `cursor` on and the number of the last page
RECURSIVE fetch_all(_, _, _)
fetch_all(cursor, all, page) ==
    LET page_trades == PageOf(vendorN, cursor, PageLimit)
        last == page_trades[Len(page_trades)]
    IN IF page_trades = <<>> THEN [data |-> all, pages |-> page]
       ELSE IF Len(page_trades) < PageLimit \/ IsEarly(last)
            THEN [data |-> all \o page_trades, pages |-> page]
            ELSE fetch_all(last, all \o page_trades, page + 1)

\* _process_task in the thread left behind, as one step: o is what the first
\* page request brings, the later ones bring 200 and the save succeeds
orphan_process_task(o) ==
    /\ orphan.pc = "task"
    /\ o \in FetchOutcomes
    /\ LET j == orphan.job
           t == orphan.pending[orphan.pos]
           r == fetch_all(0, <<>>, 1)
       IN IF o = "200"
          THEN task_done(j, t, r.data, r.pages, TRUE, jlog)
          ELSE task_failed(j, t, o)
    /\ tokenStore' = (IF o = "401" THEN mark_token_invalid ELSE tokenStore)
    /\ orphan' = [orphan EXCEPT !.pc = "loop", !.pos = @ + 1]
    /\ UNCHANGED <<pause_flag, stop_flag, w, vendorN, earlyUpTo, vendorOk,
                   daemonVars, tokenManagerVars, streamerVars, storeVars,
                   poolVars, codecVars, sinkVars, clockVars, saving, fp>>

(***************************************************************************)
(* CSVStorage.save_trades in the pool threads of one job: the job has one  *)
(* ticker, task t is its t-th date, so every task saves to the same file   *)
(***************************************************************************)
\* a thread outside save_trades
NoSave == [pc |-> "none", file_exists |-> FALSE, mode |-> "-"]

\* no thread in save_trades, the job's file not there
NoSaving == [th |-> [t \in PoolTaskIds |-> NoSave], exists |-> FALSE, rows |-> <<>>]

\* config.CSV_APPEND_MODE
CSV_APPEND_MODE == TRUE

\* the pool threads between filename.exists() and the end of the `with` block
InSaveTrades == {t \in PoolTaskIds : saving.th[t].pc \in {"exists", "open"}}

\* `file_exists = filename.exists()`
save_trades_exists(t) ==
    /\ pool.fut[t] = "running"
    /\ saving.th[t].pc = "none"
    /\ saving' = [saving EXCEPT !.th[t] = [pc |-> "exists", file_exists |-> saving.exists,
                                           mode |-> "-"]]
    /\ UNCHANGED <<coreVars, poolVars, codecVars, sinkVars, clockVars, orphan, fp>>

\* `open(filename, mode)`: mode 'w' creates the file or empties it
save_trades_open(t) ==
    /\ saving.th[t].pc = "exists"
    /\ LET mode == IF CSV_APPEND_MODE /\ saving.th[t].file_exists THEN "a" ELSE "w"
       IN saving' = [saving EXCEPT !.th[t].pc = "open",
                                   !.th[t].mode = mode,
                                   !.exists = TRUE,
                                   !.rows = IF mode = "w" THEN <<>> ELSE @]
    /\ UNCHANGED <<coreVars, poolVars, codecVars, sinkVars, clockVars, orphan, fp>>

\* a file's rows after `data` was written at the start of the file
Overwrite(rows, data) ==
    [i \in 1..(IF Len(rows) > Len(data) THEN Len(rows) ELSE Len(data)) |->
        IF i <= Len(data) THEN data[i] ELSE rows[i]]

\* the header when the file is new, the task's row, and the end of the `with`
\* block, where the buffered rows reach the file: at its end in mode 'a', at
\* the handle's position, the start, in mode 'w'; then _process_task marks
\* the task COMPLETED and returns
save_trades_write(t) ==
    /\ saving.th[t].pc = "open"
    /\ LET me == saving.th[t]
           data == (IF me.mode = "w" \/ ~me.file_exists THEN <<"header">> ELSE <<>>)
                       \o <<t>>
       IN saving' = [saving EXCEPT !.th[t].pc = "closed",
                                   !.rows = IF me.mode = "a" THEN @ \o data
                                            ELSE Overwrite(@, data)]
    /\ pool' = [pool EXCEPT !.fut[t] = "COMPLETED"]
    /\ UNCHANGED <<coreVars, codecVars, sinkVars, clockVars, orphan, fp>>

(***************************************************************************)
(* StockbitClient._fetch_page, one call                                    *)
(***************************************************************************)
NoFetch == [pc |-> "none", retry_count |-> 0, attempt |-> 0, requests |-> 0,
            answers |-> <<>>, result |-> "-"]

\* what requests.get can bring: a status code (200 with a JSON body or with
\* a body that is no JSON), a timeout, another RequestException
Answers == {"200", "200 no JSON", "401", "403", "404", "500", "Timeout", "RequestException"}

\* response.json() on a body that is no JSON raises JSONDecodeError, which
\* is a RequestException in requests 2.27 and later and a plain ValueError
\* before
JsonErrors == {"RequestException", "ValueError"}

\* the error results of _fetch_page
ErrorResults == {"No valid token", "Token expired or invalid", "Access forbidden",
                 "Client error", "Server error after attempts",
                 "Request timeout after attempts", "Request failed"}

\* the head of _fetch_page: without a valid token it returns at once
fetch_page ==
    /\ fp.pc = "called"
    /\ fp' = IF get_valid_token
             THEN [fp EXCEPT !.pc = "request"]
             ELSE [fp EXCEPT !.pc = "returned", !.result = "No valid token"]
    /\ UNCHANGED <<engineVars, tokenStore, daemonVars, tokenManagerVars, streamerVars, storeVars,
                   poolVars, codecVars, sinkVars, clockVars, orphan, saving>>

\* retry_or counting one attempt more than range(retry_count) has
retry_past_last(result) ==
    IF fp.attempt < fp.retry_count
    THEN [fp EXCEPT !.attempt = @ + 1]
    ELSE [fp EXCEPT !.pc = "returned", !.result = result]

\* `continue` after the backoff sleep when an attempt is left, else the
\* error result
retry_or(result) ==
    IF fp.attempt < fp.retry_count - 1
    THEN [fp EXCEPT !.attempt = @ + 1]
    ELSE [fp EXCEPT !.pc = "returned", !.result = result]

\* one turn of `for attempt in range(retry_count)`: the request and what
\* follows from its answer
fetch_page_attempt(answer, json_error) ==
    /\ fp.pc = "request"
    /\ fp.attempt < fp.retry_count
    /\ LET sent == [fp EXCEPT !.requests = @ + 1, !.answers = Append(@, answer)]
           returned(r) == [sent EXCEPT !.pc = "returned", !.result = r]
           again(r) == [retry_or(r) EXCEPT !.requests = sent.requests,
                                           !.answers = sent.answers]
       IN /\ fp' = CASE answer = "401" -> returned("Token expired or invalid")
                     [] answer = "403" -> returned("Access forbidden")
                     [] answer = "404" -> returned("Client error")
                     [] answer = "500" -> again("Server error after attempts")
                     [] answer = "200" -> returned("success")
                     [] answer = "200 no JSON" ->
                            IF json_error = "RequestException"
                            THEN again("Request failed")
                            ELSE [sent EXCEPT !.pc = "raised", !.result = "ValueError"]
                     [] answer = "Timeout" -> again("Request timeout after attempts")
                     [] OTHER -> again("Request failed")
          /\ tokenStore' = IF answer = "401" THEN mark_token_invalid ELSE tokenStore
    /\ UNCHANGED <<engineVars, daemonVars, tokenManagerVars, streamerVars, storeVars,
                   poolVars, codecVars, sinkVars, clockVars, orphan, saving>>

\* the next call, with some retry_count and some state of the Token Store
fetch_page_called(retry_count, store) ==
    /\ fp.pc \in {"returned", "raised"}
    /\ fp' = [NoFetch EXCEPT !.pc = "called", !.retry_count = retry_count]
    /\ tokenStore' = store
    /\ UNCHANGED <<engineVars, daemonVars, tokenManagerVars, streamerVars, storeVars,
                   poolVars, codecVars, sinkVars, clockVars, orphan, saving>>

LateIdle == orphan = NoThread /\ saving = NoSaving /\ fp = NoFetch

(***************************************************************************)
(* Specification of the Historical Crawl Engine                            *)
(***************************************************************************)
InitEngine ==
    /\ jobs = [j \in JobIds |-> NoJob]
    /\ pause_flag = FALSE
    /\ stop_flag = FALSE
    /\ w = IdleWorker
    /\ csv = [f \in FileNames |-> <<>>]
    /\ vendorN \in 0..MaxRecords
    /\ earlyUpTo \in {0, PageLimit}
    /\ vendorOk = TRUE
    /\ jlog = [j \in JobIds |-> [mid |-> "no", other |-> FALSE, cancelled |-> FALSE]]
    /\ tokenStore = "valid"
    /\ DaemonIdle
    /\ TokenManagerIdle
    /\ StreamerIdle
    /\ StoreIdle
    /\ PoolIdle
    /\ CodecIdle
    /\ SinkIdle
    /\ LateIdle
    /\ ClockIdle

NextEngine ==
    \/ \E tks \in TickerLists, until \in 1..MaxDays : create_job(tks, until)
    \/ \E j \in JobIds : pause_job(j)
    \/ \E j \in JobIds : resume_job(j)
    \/ auto_resume_paused_jobs
    \/ \E j \in JobIds : cancel_job(j)
    \/ stop_worker
    \/ worker_exit
    \/ worker_pick
    \/ process_job
    \/ \E o \in {"no_token", "200", "401", "403", "error"}, saveOk \in BOOLEAN :
           fetch_running_trade(o, saveOk)
    \/ vendor_revoke
    \/ \E kind \in BearerKinds : set_token_route(kind)
    \/ token_expires

SpecEngine == InitEngine /\ [][NextEngine]_vars

(***************************************************************************)
(* Specification of a job run with parallel_workers > 1: the worker has    *)
(* marked the job RUNNING and is about to submit its tasks                 *)
(***************************************************************************)
InitParallel ==
    /\ EngineIdle
    /\ tokenStore = "valid"
    /\ DaemonIdle
    /\ TokenManagerIdle
    /\ StreamerIdle
    /\ StoreIdle
    /\ pool = [NoPool EXCEPT !.pc = "submit", !.status = "RUNNING"]
    /\ CodecIdle
    /\ SinkIdle
    /\ LateIdle
    /\ ClockIdle

NextParallel ==
    \/ pool_submit
    \/ \E t \in PoolTaskIds : pool_task_starts(t)
    \/ \E t \in PoolTaskIds, o \in FutureDone : pool_task_ends(t, o)
    \/ \E t \in PoolTaskIds : as_completed(t)
    \/ pool_exit
    \/ stop_worker

SpecParallel == InitParallel /\ [][NextParallel]_vars

(***************************************************************************)
(* Specification of the engine with start_worker as callers may use it:    *)
(* the application has started the worker; the vendor holds one record     *)
(***************************************************************************)
InitDispatchers ==
    /\ jobs = [j \in JobIds |-> NoJob]
    /\ pause_flag = FALSE
    /\ stop_flag = FALSE
    /\ w = IdleWorker
    /\ csv = [f \in FileNames |-> <<>>]
    /\ vendorN = 1
    /\ earlyUpTo = 0
    /\ vendorOk = TRUE
    /\ jlog = [j \in JobIds |-> [mid |-> "no", other |-> FALSE, cancelled |-> FALSE]]
    /\ tokenStore = "valid"
    /\ DaemonIdle
    /\ TokenManagerIdle
    /\ StreamerIdle
    /\ StoreIdle
    /\ PoolIdle
    /\ CodecIdle
    /\ SinkIdle
    /\ LateIdle
    /\ ClockIdle

NextDispatchers ==
    \/ \E tks \in TickerLists, until \in 1..MaxDays : create_job(tks, until)
    \/ start_worker
    \/ stop_worker
    \/ worker_exit
    \/ worker_pick
    \/ process_job
    \/ \E o \in {"200", "error"}, saveOk \in BOOLEAN : fetch_running_trade(o, saveOk)
    \/ orphan_exit
    \/ orphan_worker_loop
    \/ orphan_process_job
    \/ orphan_next_task
    \/ \E o \in {"200", "error"} : orphan_process_task(o)

SpecDispatchers == InitDispatchers /\ [][NextDispatchers]_vars

(***************************************************************************)
(* Specification of a job of one ticker run with parallel_workers > 1, the *)
(* pool threads saving to the ticker's file; a task whose fetch failed or  *)
(* brought no trades ends outside save_trades                              *)
(***************************************************************************)
InitSaving ==
    /\ InitParallel

NextSaving ==
    \/ pool_submit
    \/ \E t \in PoolTaskIds : pool_task_starts(t)
    \/ \E t \in PoolTaskIds : save_trades_exists(t)
    \/ \E t \in PoolTaskIds : save_trades_open(t)
    \/ \E t \in PoolTaskIds : save_trades_write(t)
    \/ \E t \in PoolTaskIds, o \in FutureDone :
           saving.th[t].pc = "none" /\ pool_task_ends(t, o)
    \/ \E t \in PoolTaskIds : as_completed(t)
    \/ pool_exit

SpecSaving == InitSaving /\ [][NextSaving]_vars

(***************************************************************************)
(* Specification of one page fetch after another: the retry count is the    *)
(* caller's, DEFAULT_RETRY_COUNT or less                                   *)
(***************************************************************************)
InitFetchPage ==
    /\ EngineIdle
    /\ tokenStore \in {"valid", "absent"}
    /\ DaemonIdle
    /\ TokenManagerIdle
    /\ StreamerIdle
    /\ StoreIdle
    /\ PoolIdle
    /\ CodecIdle
    /\ SinkIdle
    /\ ClockIdle
    /\ orphan = NoThread /\ saving = NoSaving
    /\ fp \in {[NoFetch EXCEPT !.pc = "called", !.retry_count = n] : n \in 1..MaxRetryCount}

NextFetchPage ==
    \/ fetch_page
    \/ \E answer \in Answers, json_error \in JsonErrors : fetch_page_attempt(answer, json_error)
    \/ \E n \in 1..MaxRetryCount, store \in {"valid", "absent"} : fetch_page_called(n, store)

\* the thread that called _fetch_page runs on, and every request comes back
\* (requests.get has timeout=30)
SpecFetchPage ==
    /\ InitFetchPage
    /\ [][NextFetchPage]_vars
    /\ WF_vars(fetch_page)
    /\ WF_vars(\E answer \in Answers, json_error \in JsonErrors :
                   fetch_page_attempt(answer, json_error))

(***************************************************************************)
(* Specifications of the Streaming Supervisor                              *)
(***************************************************************************)
\* OrderbookDaemon.__init__ and start(): the watchlist and the token come from
\* their files, the state is no_tickers or waiting_market
InitDaemon ==
    /\ EngineIdle
    /\ tokenStore \in {"absent", "valid", "expired"}
    /\ tickers \in {<<>>, <<"A">>}
    /\ dstate = IdleState(tickers)
    /\ paused = FALSE
    /\ streamer = 0
    /\ streamers = [i \in StreamerIds |-> "stopped"]
    /\ clock \in {"pre", "s1"}
    /\ tick = SleepingTick
    /\ cmd = IdleCmd
    /\ lastTick = NoTick
    /\ lastCmd = NoCmd
    /\ pauseHeld = FALSE
    /\ seq = NoSeq
    /\ TokenManagerIdle
    /\ StreamerIdle
    /\ StoreIdle
    /\ PoolIdle
    /\ CodecIdle
    /\ SinkIdle
    /\ LateIdle
    /\ ClockIdle

\* the steps of the Supervisor.  The steps that go on from a stopped stream
\* (tick_stop, tick_stop_done, cmd_stop_done, cmd_wake, streamer_ends) are
\* enabled only after a Streamer was started, which no behaviour reaches:
\* the constructor call of _start_stream raises TypeError.
NextDaemon ==
    \/ scheduler_loop
    \/ tick_start
    \/ \E new \in CmdLists : set_tickers(new)
    \/ \E new \in CmdLists : add_tickers(new)
    \/ \E gone \in CmdLists : remove_tickers(gone)
    \/ pause
    \/ resume
    \/ \E kind \in BearerKinds : set_token_and_reconnect(kind)
    \/ clock_advance
    \/ token_expires
    \/ token_marked_invalid

SpecDaemon == InitDaemon /\ [][NextDaemon]_vars

(***************************************************************************)
(* Specification of the frame codec: a subscription, or a frame of string  *)
(* fields, is encoded and the frame is decoded                             *)
(***************************************************************************)
InitCodec ==
    /\ EngineIdle
    /\ tokenStore = "valid"
    /\ DaemonIdle
    /\ TokenManagerIdle
    /\ StreamerIdle
    /\ StoreIdle
    /\ PoolIdle
    /\ CodecIdle
    /\ SinkIdle
    /\ LateIdle
    /\ ClockIdle

NextCodec ==
    \/ \E user_id \in UserIds, tks \in SubscribedLists, trading_key \in TradingKeys,
          access_token \in AccessTokens :
           encode(user_id, tks, trading_key, access_token)
    \/ \E fs \in FieldLists : frame_of_strings(fs)
    \/ decode
    \/ codec_again

SpecCodec == InitCodec /\ [][NextCodec]_vars

(***************************************************************************)
(* Specification of the inbound path: frames are handled, days pass, the   *)
(* storage is closed, the next Streamer opens the files again              *)
(***************************************************************************)
InitInbound ==
    /\ EngineIdle
    /\ tokenStore = "valid"
    /\ DaemonIdle
    /\ TokenManagerIdle
    /\ StreamerIdle
    /\ StoreIdle
    /\ PoolIdle
    /\ CodecIdle
    /\ SinkIdle
    /\ LateIdle
    /\ ClockIdle

NextInbound ==
    \/ \E shape \in {"nested", "flat"}, tk \in FrameTickers, payload \in Payloads,
          ts \in {"none", "f5", "f9", "both"} : handle_message(shape, tk, payload, ts)
    \/ date_rollover
    \/ close_all
    \/ new_storage

SpecInbound == InitInbound /\ [][NextInbound]_vars

(***************************************************************************)
(* Specification of the Market Clock: every instant of the week            *)
(***************************************************************************)
InitClock ==
    /\ EngineIdle
    /\ tokenStore = "valid"
    /\ DaemonIdle
    /\ TokenManagerIdle
    /\ StreamerIdle
    /\ StoreIdle
    /\ PoolIdle
    /\ CodecIdle
    /\ SinkIdle
    /\ LateIdle
    /\ mc \in [weekday : Weekdays, minute : {0}, reason : {"-"}, time_until_next : {0}]

NextClock ==
    \/ ask_market_status
    \/ minute_passes

SpecClock == InitClock /\ [][NextClock]_vars

(***************************************************************************)
(* Specification of the watchlist commands, given symbols as callers write *)
(* them                                                                    *)
(***************************************************************************)
InitWatchlist == InitDaemon

NextWatchlist ==
    \/ \E raw \in RawLists : set_tickers(raw)
    \/ \E raw \in RawLists : add_tickers(raw)
    \/ \E raw \in RawLists : remove_tickers(raw)

SpecWatchlist == InitWatchlist /\ [][NextWatchlist]_vars

(***************************************************************************)
(* Specification of one Streamer session                                   *)
(***************************************************************************)
InitStreamer ==
    /\ EngineIdle
    /\ tokenStore \in {"absent", "valid"}
    /\ DaemonIdle
    /\ TokenManagerIdle
    /\ StoreIdle
    /\ sr = NewStreamer
    /\ PoolIdle
    /\ CodecIdle
    /\ SinkIdle
    /\ LateIdle
    /\ ClockIdle

NextStreamer ==
    \/ run
    \/ \E o \in ConnectOutcomes : connect(o)
    \/ receive_loop
    \/ socket_closes
    \/ receive_loop_ends
    \/ heartbeat
    \/ gather_done
    \/ run_finally
    \/ stop

SpecStreamer == InitStreamer /\ [][NextStreamer]_vars

(***************************************************************************)
(* Specification of the job store                                          *)
(***************************************************************************)
InitJobStore ==
    /\ EngineIdle
    /\ tokenStore = "valid"
    /\ DaemonIdle
    /\ TokenManagerIdle
    /\ StreamerIdle
    /\ StoreIdle
    /\ PoolIdle
    /\ CodecIdle
    /\ SinkIdle
    /\ LateIdle
    /\ ClockIdle

NextJobStore ==
    \/ \E tks \in StoreTickerLists, until \in 0..MaxSpan : create_job(tks, until)
    \/ \E j \in JobIds, st \in PersistedStatus : persist_job(j, st)
    \/ load_jobs_from_db

SpecJobStore == InitJobStore /\ [][NextJobStore]_vars

(***************************************************************************)
(* Specification of the Token Store                                        *)
(***************************************************************************)
InitToken ==
    /\ EngineIdle
    /\ tokenStore = "absent"
    /\ DaemonIdle
    /\ StreamerIdle
    /\ StoreIdle
    /\ tm = NoTokenManager
    /\ token_file = save_token(NoTokenManager)
    /\ now \in 1..MaxNow
    /\ lastSet = NoLastSet
    /\ PoolIdle
    /\ CodecIdle
    /\ SinkIdle
    /\ LateIdle
    /\ ClockIdle

NextToken ==
    \/ \E b \in Bearers, c \in CookieArgs : TokenManager_set_token(b, c)
    \/ TokenManager_mark_token_invalid
    \/ load_token
    \/ second_passes

SpecToken == InitToken /\ [][NextToken]_vars

(***************************************************************************)
(* Properties of the Historical Crawl Engine (under SpecEngine)            *)
(***************************************************************************)
TerminalStatus == {"COMPLETED", "FAILED"}

\* C1: once a job's status is completed or failed, no step of the engine
\* (cancel_job, pause_job, resume_job, auto_resume_paused_jobs, the worker
\* finishing the job's remaining tasks) changes that job's status again.
\* (Steps taken while stop_worker's stop flag is up are left out.)
C1_TerminalStatusIsFinal ==
    [][\A j \in JobIds :
          (jobs[j].status \in TerminalStatus /\ ~stop_flag)
              => jobs'[j].status = jobs[j].status]_vars

\* the step in which a page request of the running task is answered HTTP 401:
\* the only step of the engine that takes a valid token out of the Token Store
Answered401 == w.pc = "fetch" /\ tokenStore = "valid" /\ tokenStore' = "absent"

\* C2: when the vendor answers HTTP 401 on any page of a task's fetch, the
\* first page or a later one with records already collected, the job becomes
\* paused, the task goes back to pending and the Token Store has no valid token.
C2_Http401PausesJob ==
    [][Answered401 =>
          /\ jobs'[w.job].status = "PAUSED"
          /\ jobs'[w.job].tasks[w.pending[w.pos]].status = "PENDING"
          /\ ~get_valid_token']_vars

\* the rows of the job's CSV file that hold record r of task t
RowsOf(j, t, r) ==
    LET tk == jobs[j].tasks[t]
        file == csv[get_filename(tk.ticker, jobs[j].until)]
    IN {i \in 1..Len(file) : file[i] = <<tk.date, r>>}

\* every record the vendor holds for every task of job j is in the CSV exactly once
CsvComplete(j) ==
    \A t \in 1..Len(jobs[j].tasks) : \A r \in 1..vendorN : Cardinality(RowsOf(j, t, r)) = 1

\* C3: a job that was interrupted by an authentication failure in the middle
\* of a task (and by nothing else), and then saw a successful set_token with
\* auto_resume_paused_jobs, finishes with every record of each (ticker, date)
\* in its CSV exactly once.  (No record carries a time at or before 09:00:00.)
C3_ResumeLosesNoRecord ==
    \A j \in JobIds :
        (/\ jobs[j].status = "COMPLETED"
         /\ jlog[j].mid = "resumed"
         /\ ~jlog[j].other
         /\ earlyUpTo = 0) => CsvComplete(j)

(***************************************************************************)
(* Properties of the Streaming Supervisor (under SpecDaemon)               *)
(***************************************************************************)
\* the Streamers that were started and not stopped
Running == {i \in StreamerIds : streamers[i] = "running"}

\* C4: from the return of pause() until the next resume(), whatever a
\* scheduler tick in progress does, the state is paused and no Streamer is
\* running.
C4_PauseHolds == pauseHeld => (dstate = "paused" /\ Running = {})

\* No behaviour starts a Streamer: the state is never streaming and the
\* Supervisor never holds a Streamer.  (The case C5 and C7 are about, a tick
\* or a command finding the Supervisor streaming, is therefore never reached.)
StreamingUnreachable == dstate # "streaming" /\ streamer = 0 /\ Running = {}

\* a tick has just run _start_stream after it saw the clock open and the
\* state `from`
TickStarted(from) ==
    lastTick.kind = "start" /\ lastTick.clk = "open" /\ lastTick.obs = from

\* C6: with a non-empty watchlist, a valid token and the Supervisor not
\* paused, a tick that observes the clock open in waiting_market starts a
\* Streamer and leaves the state streaming.
C6_OpenStartsStreaming ==
    (/\ TickStarted("waiting_market")
     /\ lastTick.listed /\ lastTick.tokenOk /\ ~lastTick.wasPaused)
        => (dstate = "streaming" /\ streamer # 0 /\ streamer \in Running)

\* C8: set_tickers([]), called in any state, leaves the state no_tickers
\* and no Streamer running.
C8_EmptyWatchlistIsNoTickers ==
    (lastCmd.name = "set_tickers" /\ lastCmd.empty)
        => (dstate = "no_tickers" /\ Running = {})

\* C9: a tick that observes the clock open with a non-empty watchlist while
\* the Token Store has no valid token leaves the state error and creates no
\* Streamer.
C9_NoTokenIsError ==
    (/\ lastTick.kind = "start" /\ lastTick.clk = "open"
     /\ lastTick.listed /\ ~lastTick.tokenOk)
        => (dstate = "error" /\ ~lastTick.created /\ streamer = lastTick.held
            /\ Running = {})

\* C9's case: such a tick has just ended, from waiting_market, in error
C9_Witness ==
    /\ TickStarted("waiting_market")
    /\ lastTick.listed /\ ~lastTick.tokenOk
    /\ dstate = "error"

\* C10: in error, set_token_and_reconnect with a well-formed, unexpired
\* bearer while the clock is open and the watchlist is non-empty ends with
\* the state streaming and a Streamer started; and a tick that finds the state
\* error while the clock is not open leaves error.
C10_ReconnectRecovers ==
    /\ (/\ lastCmd.name = "reconnect" /\ lastCmd.from = "error"
        /\ lastCmd.tokenOk /\ lastCmd.open /\ lastCmd.listed)
           => (dstate = "streaming" /\ streamer # 0 /\ streamer \in Running)
    /\ (lastTick.kind = "set" /\ lastTick.obs = "error" /\ lastTick.clk # "open")
           => dstate # "error"


(***************************************************************************)
(* Properties of one Streamer session (under SpecStreamer)                 *)
(***************************************************************************)
\* the session ended for a reason other than a call of stop()
AbnormalEnd == sr.ended \in {"auth", "handshake", "send", "close"}

\* C11: with no retry budget set, a run() whose session ended abnormally
\* (credentials missing, handshake failed, socket closed) waits and connects
\* again, so run() has returned only if stop() was called.
C11_RunReturnsOnlyAfterStop ==
    (sr.pc = "returned" /\ AbnormalEnd) => sr.stop_called

\* C32: the Supervisor's health test calls the Streamer unhealthy when it is
\* running without an open connection, and never calls a Streamer healthy
\* whose session has ended (so that the tick restarts the stream).
C32_EndedStreamerIsUnhealthy ==
    /\ (sr.running /\ sr.websocket # "open" /\ sr.pc = "gather") => ~streamer_is_healthy
    /\ sr.pc = "returned" => ~streamer_is_healthy

(***************************************************************************)
(* Properties of the Streaming Supervisor, continued (under SpecDaemon)    *)
(***************************************************************************)
\* C12: pause(); resume(); pause(); resume(), each given with the Supervisor
\* at rest and with the clock, the watchlist and the token as they were, leaves
\* the Supervisor, once at rest again, in the state it started from.
C12_PauseResumeTwiceIsIdentity ==
    (seq.n = 4 /\ Quiet /\ get_valid_token = seq.tokenOk)
        => (dstate = seq.from /\ ~paused)

\* a tick has finished and no command and no change of the clock came after it
TickDone == tick.pc = "sleep" /\ cmd.pc = "idle" /\ lastTick.kind \in {"skip", "set", "start"}

\* the steps of the scheduler leave the state that TickState computes
TickFollowsCode ==
    TickDone =>
        dstate = IF lastTick.kind = "skip" /\ lastTick.wasPaused THEN lastTick.obs
                 ELSE TickState(lastTick.obs, lastTick.clk, tickers, lastTick.tokenOk,
                                is_stream_healthy)

\* C13: the state after a tick is a function of the clock, the watchlist, the
\* token validity, the paused flag and the stream health alone: it is the
\* state a Supervisor just started on the same inputs has after its tick.
C13_TickStateIsFunctionOfInputs ==
    TickDone =>
        dstate = FreshState(market_status(clock), tickers, lastTick.tokenOk, paused)

(***************************************************************************)
(* Properties of the Token Store (under SpecToken)                         *)
(***************************************************************************)
\* the bearer the last successful set_token stored, while no set_token and
\* no mark_token_invalid came after it
HeldBearer == lastSet.called /\ lastSet.success

\* C14: after set(bearer) succeeded, get_valid_token returns that bearer
\* exactly when its exp is absent or strictly later than the current second,
\* for every integer exp, 0 and the current second included.
C14_ValidIffExpLater ==
    HeldBearer =>
        ((TokenManager_get_valid_token(tm, now) = lastSet.bearer)
            <=> (lastSet.bearer[1].exp = None \/ lastSet.bearer[1].exp[1] > now))

\* C15: a set_token that is given a malformed bearer (not three segments, a
\* middle segment that is not base64url, or not JSON, or JSON that is no
\* object) fails and leaves the fields and the persisted document unchanged.
C15_MalformedSetChangesNothing ==
    [][\A b \in Bearers, c \in CookieArgs :
          (Malformed(b) /\ TokenManager_set_token(b, c))
              => (~lastSet'.success /\ tm' = tm /\ token_file' = token_file)]_vars

\* C16: after mark_token_invalid the bearer, the expiry, the cookies and
\* issued_at are all None, and the persisted document holds the same.
C16_MarkInvalidClearsAll ==
    [][TokenManager_mark_token_invalid
          => (tm' = NoTokenManager /\ token_file' = save_token(NoTokenManager))]_vars

(***************************************************************************)
(* Properties of the Historical Crawl Engine, continued (under SpecEngine) *)
(***************************************************************************)
\* the vendor's answers that say the bearer is not accepted
AuthInvalid == {"401", "403"}

\* C17: a page request answered HTTP 401 or HTTP 403 returns at once with
\* requires_login and leaves the Token Store without a valid token.
C17_AuthInvalidMarksTokenInvalid ==
    [][\A o \in AuthInvalid, saveOk \in BOOLEAN :
          fetch_running_trade(o, saveOk) => (requires_login(o) /\ ~get_valid_token')]_vars

(***************************************************************************)
(* Properties of the job store (under SpecJobStore)                        *)
(***************************************************************************)
\* the number of calendar days from day from to day until, both included
inclusive_days(from, until) == IF until >= from THEN until - from + 1 ELSE 0

\* how often ticker t is listed in tks
Listed(tks, t) == Cardinality({m \in 1..Len(tks) : tks[m] = t})

PagesCarrying(n, limit) == (n + limit - 1) \div limit

\* the job ran without any failed request, failed save or stop
Undisturbed(j) == jlog[j].mid = "no" /\ ~jlog[j].other

\* C19: a (ticker, date) with N records, none at or before 09:00:00, served
\* in pages of at most pageLimit, completes with records_fetched = N and
\* pages_fetched = the number of pages that carried records, N an exact
\* multiple of the limit included, and every record is in the CSV once.
C19_PagesFetchedCountsRecordPages ==
    \A j \in JobIds : \A t \in 1..Len(jobs[j].tasks) :
        (/\ jobs[j].tasks[t].status = "COMPLETED"
         /\ Undisturbed(j)
         /\ earlyUpTo = 0 /\ vendorN > 0)
            => /\ jobs[j].tasks[t].records_fetched = vendorN
               /\ jobs[j].tasks[t].pages_fetched = PagesCarrying(vendorN, PageLimit)
               /\ \A r \in 1..vendorN : Cardinality(RowsOf(j, t, r)) = 1

TaskStarts == w.pc = "loop" /\ w'.pc = "fetch"

\* the worker leaves the job it is processing
JobLeft == w.pc \in {"loop", "fetch"} /\ w'.pc = "idle"

\* C21: after cancel_job on a running job no further task of that job is
\* started, and when the worker leaves the job its status is FAILED.
C21_CancelStopsAtTaskBoundary ==
    [][/\ (TaskStarts /\ ~stop_flag) => ~jlog[w.job].cancelled
       /\ (JobLeft /\ ~stop_flag /\ jlog[w.job].cancelled)
              => jobs'[w.job].status = "FAILED"]_vars

\* a pool thread starts a task that was waiting in the executor's queue
QueuedTaskStarts ==
    \E t \in PoolTaskIds : pool.fut[t] = "queued" /\ pool'.fut[t] = "running"

\* C22: once stop_worker has raised the stop flag while a job is running, no
\* task that had not started is started, and the job is left PAUSED (never
\* COMPLETED, never RUNNING) -- here for parallel_workers > 1.
C22_StopLeavesJobPaused ==
    [][/\ stop_flag => ~QueuedTaskStarts
       /\ (stop_flag /\ pool.pc # "done" /\ pool'.pc = "done")
              => pool'.status = "PAUSED"]_vars

\* the same for parallel_workers = 1, under SpecEngine: the worker leaves a
\* job with the stop flag up only as PAUSED
StopLeavesJobPausedSequential ==
    [][(JobLeft /\ stop_flag) => jobs'[w.job].status = "PAUSED"]_vars

(***************************************************************************)
(* Property of the job store (under SpecJobStore)                          *)
(***************************************************************************)
\* the status a persisted row is said to be loaded with
LoadedStatus(st) == IF st = "RUNNING" THEN "QUEUED" ELSE st

\* C23: at startup every row persisted as QUEUED, PAUSED or RUNNING is
\* loaded, a RUNNING row as a QUEUED job; COMPLETED and FAILED rows are not
\* loaded.
C23_RunningRowsLoadedQueued ==
    [][boots' = boots + 1 =>
          \A j \in JobIds :
              /\ db[j].status \in {"QUEUED", "PAUSED", "RUNNING"}
                     => jobs'[j].status = LoadedStatus(db[j].status)
              /\ db[j].status \in {"COMPLETED", "FAILED"} => jobs'[j] = NoJob]_vars

(***************************************************************************)
(* Property of the watchlist (under SpecWatchlist)                         *)
(***************************************************************************)
\* a symbol that is upper-case, trimmed and not blank
Normalised(t) == t # "" /\ strip(t) = t /\ upper(t) = t

\* C24: after any sequence of set_tickers, add_tickers and remove_tickers the
\* watchlist holds no symbol twice and every symbol is upper-case and trimmed.
C24_WatchlistDeduplicated ==
    /\ \A i \in 1..Len(tickers) : Normalised(tickers[i])
    /\ \A i, k \in 1..Len(tickers) : i # k => tickers[i] # tickers[k]

(***************************************************************************)
(* Properties of the frame codec (under SpecCodec)                         *)
(***************************************************************************)
\* the decoder has returned the dict with exactly these keys
DecodedKeys(keys) == cx.decoded.kind = "dict" /\ DOMAIN cx.decoded.fields = keys

\* decoding the subscription gives fields 1, 2, 3 and 5 with the bytes encoded
SubscriptionRecovered ==
    /\ DecodedKeys({1, 2, 3, 5})
    /\ cx.decoded.fields[1].v = Utf8Encode(str(cx.given[2]))
    /\ cx.decoded.fields[2].v = field2_inner(cx.given[3])
    /\ cx.decoded.fields[3].v = Utf8Encode(cx.given[4])
    /\ cx.decoded.fields[5].v = Utf8Encode(cx.given[5])

\* decoding a frame of string fields gives the map field number -> string
StringsRecovered ==
    LET fs == cx.given[2]
    IN /\ DecodedKeys({fs[i][1] : i \in 1..Len(fs)})
       /\ \A i \in 1..Len(fs) : cx.decoded.fields[fs[i][1]] = PyStr(fs[i][2])

\* a list of fields with different numbers, none of them the nested field 10
PlainFields(fs) ==
    /\ \A i \in 1..Len(fs) : fs[i][1] # 10
    /\ \A i, k \in 1..Len(fs) : i # k => fs[i][1] # fs[k][1]

\* C27 as stated: decoding the encoded subscription recovers fields 1, 2, 3
\* and 5 with the same bytes, and decoding any frame of length-delimited
\* string fields gives the map from field number to string.
C27_DecodeRecoversFields ==
    cx.pc = "decoded" =>
        IF cx.given[1] = "subscription" THEN SubscriptionRecovered ELSE StringsRecovered

\* C27 amended: the same, the frames of string fields being those whose
\* field numbers differ from each other and from 10.
C27_DecodeRecoversPlainFields ==
    cx.pc = "decoded" =>
        IF cx.given[1] = "subscription" THEN SubscriptionRecovered
        ELSE PlainFields(cx.given[2]) => StringsRecovered

C27_Witness ==
    /\ cx.pc = "decoded" /\ cx.given[1] = "subscription"
    /\ Len(cx.given[3]) = 2 /\ Len(cx.given[5]) > 127
    /\ SubscriptionRecovered

\* the fields of a message of length-delimited fields, one after another, as
\* <<field number, bytes>>
RECURSIVE WireFields(_, _)
WireFields(data, pos) ==
    IF pos >= Len(data) THEN <<>>
    ELSE LET t == decode_varint(data, pos)
             l == decode_varint(data, t.pos)
         IN <<<<t.value \div 8, Slice(data, l.pos, l.value)>>>>
                \o WireFields(data, l.pos + l.value)

\* C28: field 2 of the subscription holds 4N inner field-2 strings: the N
\* tickers in list order, then "2"+T, then ":"+T, then "J"+T, each in list
\* order; the top-level fields come in the order 1, 2, 3, 5.
C28_FourFormsInOrder ==
    (cx.pc = "encoded" /\ cx.given[1] = "subscription") =>
        LET top == WireFields(cx.frame, 0)
            tks == cx.given[3]
            N == Len(tks)
            inner == WireFields(top[2][2], 0)
        IN /\ [i \in 1..Len(top) |-> top[i][1]] = <<1, 2, 3, 5>>
           /\ Len(inner) = 4 * N
           /\ \A i \in 1..N :
                 /\ inner[i] = <<2, tks[i]>>
                 /\ inner[N + i] = <<2, Text(<<"2">>) \o tks[i]>>
                 /\ inner[2 * N + i] = <<2, Text(<<":">>) \o tks[i]>>
                 /\ inner[3 * N + i] = <<2, Text(<<"J">>) \o tks[i]>>

C28_Witness ==
    /\ cx.pc = "encoded" /\ cx.given[1] = "subscription"
    /\ cx.given[3] = <<Text(<<"A">>), Text(<<"B", "B">>)>>
    /\ Len(WireFields(WireFields(cx.frame, 0)[2][2], 0)) = 8

(***************************************************************************)
(* Properties of the orderbook files (under SpecInbound)                   *)
(***************************************************************************)
\* C25: every orderbook CSV file holds the header row exactly once, as its
\* first row, whatever appends, date rollovers, close_all calls and
\* re-opens by later Streamers came before.
C25_HeaderOnceAndFirst ==
    \A f \in DOMAIN files :
        /\ files[f] # <<>>
        /\ files[f][1] = HeaderRow
        /\ \A i \in 2..Len(files[f]) : files[f][i] # HeaderRow

\* a file that was appended to, closed, and opened and appended to again
C25_Witness ==
    /\ lastFrame.reopened
    /\ LET f == orderbook_filename(lastFrame.ticker, today)
       IN /\ Len(files[f]) > 1 + Len(lastFrame.rows)
          /\ files[f][1] = HeaderRow

\* the data rows of the ticker's files, the files taken in the order of
\* their dates
RECURSIVE DataRowsUpTo(_, _)
DataRowsUpTo(ticker, d) ==
    IF d = 0 THEN <<>>
    ELSE DataRowsUpTo(ticker, d - 1)
            \o (IF <<d, ticker>> \in DOMAIN files
                THEN SelectSeq(files[<<d, ticker>>], LAMBDA r : r.kind = "data")
                ELSE <<>>)

\* the rows appended for the ticker, in the order of the calls
AppendedFor(ticker) ==
    LET own == SelectSeq(appended, LAMBDA a : a[1] = ticker)
    IN [i \in 1..Len(own) |-> own[i][2]]

StoredTickers == {str_upper(str_strip(t)) : t \in FrameTickers}

\* C26: for each ticker, the data rows of its files read in file order are
\* exactly the levels appended for it, in the order of the frames and of
\* the levels inside each frame; nothing is dropped or merged, a row
\* appended twice is there twice.
C26_RowsAreTheAppendedLevels ==
    \A t \in StoredTickers : DataRowsUpTo(t, MaxDates) = AppendedFor(t)

\* one frame carried the same level twice and both rows are in the file
C26_Witness ==
    \E t \in StoredTickers :
        LET rows == DataRowsUpTo(t, MaxDates)
        IN /\ Len(rows) >= 2
           /\ \E i \in 1..(Len(rows) - 1) : rows[i] = rows[i + 1]
           /\ Len(lastFrame.rows) = 2 /\ lastFrame.rows[1] = lastFrame.rows[2]

\* the stamp the frame carried at the top level: field 5, else field 9
CarriedStamp(ts) == IF ts \in {"f5", "both"} THEN PyStr(Stamp5) ELSE PyStr(Stamp9)

\* C29: when the frame carries a timestamp in top-level field 5 or 9 next to
\* the payload in field 10, every row written for the frame carries that
\* timestamp; the wall clock is written only when both are absent.
C29_RowsCarryFrameTimestamp ==
    lastFrame.shape = "nested" =>
        \A i \in 1..Len(lastFrame.rows) :
            lastFrame.rows[i].timestamp =
                (IF lastFrame.ts = "none" THEN WallClock ELSE CarriedStamp(lastFrame.ts))

(***************************************************************************)
(* Property of the Market Clock (under SpecClock)                          *)
(***************************************************************************)
\* the classifications that apply to an instant by the table of sessions
Classes(weekday, t) ==
    LET weekend == weekday \in {5, 6}
        friday == weekday = 4
        s1_close == IF friday THEN HM(11, 35) ELSE HM(12, 5)
        s2_open == IF friday THEN HM(13, 55) ELSE HM(13, 25)
    IN {c \in {"Weekend", "Session 1", "Session 2", "Lunch Break", "Pre-Market", "After Hours"} :
          \/ c = "Weekend" /\ weekend
          \/ c = "Session 1" /\ ~weekend /\ HM(8, 55) <= t /\ t < s1_close
          \/ c = "Session 2" /\ ~weekend /\ s2_open <= t /\ t < HM(15, 54)
          \/ c = "Lunch Break" /\ ~weekend /\ s1_close <= t /\ t < s2_open
          \/ c = "Pre-Market" /\ ~weekend /\ t < HM(8, 55)
          \/ c = "After Hours" /\ ~weekend /\ t >= HM(15, 54)}

\* C30: for every day of the week and time of day the Market Clock gives
\* exactly one classification, the one of the table: weekend on Saturday and
\* Sunday, else session 1 in [08:55, 12:05) (Friday [08:55, 11:35)), session
\* 2 in [13:25, 15:54) (Friday [13:55, 15:54)), break between them,
\* pre-market before 08:55, after-hours from 15:54.
C30_ClockClassifiesEveryInstant ==
    mc.reason # "-" => Classes(mc.weekday, mc.minute) = {mc.reason}

\* Friday 13:30, inside the longer Friday break
C30_Witness ==
    mc.weekday = 4 /\ mc.minute = HM(13, 30) /\ mc.reason = "Lunch Break"

\* the minutes from an instant to the next boundary of the schedule: the
\* close of the open session, the opening of session 2 during the break,
\* 08:55 of the day before the opening, 08:55 of the next trading day after
\* the close and on Saturday and Sunday
ToNextBoundary(weekday, t) ==
    LET friday == weekday = 4
        s1_close == IF friday THEN HM(11, 35) ELSE HM(12, 5)
        s2_open == IF friday THEN HM(13, 55) ELSE HM(13, 25)
        days == IF weekday \in {4, 5, 6} THEN 7 - weekday ELSE 1
    IN IF weekday \in {5, 6} THEN days * 1440 + HM(8, 55) - t
       ELSE IF t < HM(8, 55) THEN HM(8, 55) - t
       ELSE IF t < s1_close THEN s1_close - t
       ELSE IF t < s2_open THEN s2_open - t
       ELSE IF t < HM(15, 54) THEN HM(15, 54) - t
       ELSE days * 1440 + HM(8, 55) - t

\* C31: for every instant the Market Clock's time until the next transition
\* is the time to the next boundary of the schedule, the session's close
\* while a session is open.
C31_TimeUntilNextBoundary ==
    mc.reason # "-" => mc.time_until_next = ToNextBoundary(mc.weekday, mc.minute)

\* the same outside the sessions only
TimeUntilNextOpen ==
    (mc.reason # "-" /\ mc.reason \notin {"Session 1", "Session 2"})
        => mc.time_until_next = ToNextBoundary(mc.weekday, mc.minute)

(***************************************************************************)
(* Properties of the Historical Crawl Engine, continued                    *)
(***************************************************************************)
\* what fetch_running_trade hands to _process_task when _fetch_page answers o
\* on this turn of the page loop: whether the loop ends, whether the result
\* is a success, and the trades it carries
FetchResult(o) ==
    LET page_trades == PageOf(vendorN, w.cursor, PageLimit)
        all2 == w.all \o page_trades
    IN IF o # "200"
       THEN [ends |-> TRUE, success |-> w.all # <<>>, data |-> w.all]
       ELSE IF page_trades = <<>>
            THEN [ends |-> TRUE, success |-> TRUE, data |-> w.all]
            ELSE [ends |-> Len(page_trades) < PageLimit
                             \/ IsEarly(page_trades[Len(page_trades)]),
                  success |-> TRUE, data |-> all2]

\* the task's fetch failed without requires_login, or its save failed
OtherFailure(o, saveOk) ==
    LET r == FetchResult(o)
    IN /\ r.ends
       /\ \/ ~r.success /\ ~requires_login(o)
          \/ r.success /\ r.data # <<>> /\ ~saveOk

\* the text _process_task stores in task.error for a result of
\* fetch_running_trade and of save_trades ("" when it stores none)
task_error(o, saveOk) ==
    LET r == FetchResult(o)
    IN IF r.success
       THEN IF r.data = <<>> \/ saveOk THEN "" ELSE "Failed to write CSV"
       ELSE IF requires_login(o) THEN "Token expired - job paused"
       ELSE "Request failed"

\* the task is FAILED with a message, the job's status is as before and the
\* task loop goes on with the next task
FailedAndGoesOn(o, saveOk) ==
    LET j == w.job
        t == w.pending[w.pos]
    IN /\ jobs'[j].tasks[t].status = "FAILED"
       /\ task_error(o, saveOk) # ""
       /\ jobs'[j].status = jobs[j].status
       /\ w'.pc = "loop" /\ w'.job = j
       /\ w'.pending = w.pending /\ w'.pos = w.pos + 1

Conclusive == {"200", "200 no JSON", "401", "403", "404"}

\* the answers that end _fetch_page at once: a 200 counts when its body is JSON
ConclusiveJson == {"200", "401", "403", "404"}

\* a request answered from `ending` is not sent again, it ends the call (so
\* the call sends exactly one request when its first answer is such); the call never sends more than retry_count requests, and one that
\* returns after answers outside `ending` only returns an error result
RequestsBounded(ending) ==
    /\ \A i \in 1..Len(fp.answers) :
           fp.answers[i] \in ending
               => /\ i = Len(fp.answers)
                  /\ fp.pc \in {"returned", "raised"}
    /\ fp.requests = Len(fp.answers)
    /\ fp.requests <= fp.retry_count
    /\ (fp.pc = "returned" /\ \A i \in 1..Len(fp.answers) : fp.answers[i] \notin ending)
           => fp.result \in ErrorResults

\* the call ends
FetchPageEnds == (fp.pc \in {"called", "request"}) ~> (fp.pc \in {"returned", "raised"})

\* C36, as stated: a single-page fetch always terminates; it sends exactly
\* one request when the answer is 200, 401, 403 or another 4xx, and at most
\* retry_count requests when every answer is 5xx or a transport error, after
\* which it returns an error result.
C36_OneRequestOn200 == [](RequestsBounded(Conclusive)) /\ FetchPageEnds

\* C36, amended: the same, a 200 counting as conclusive only when its body
\* is JSON; a 200 whose body is no JSON is retried like a transport error
\* (or its ValueError leaves the call) and stays within retry_count requests.
C36_FetchPageTerminates == [](RequestsBounded(ConclusiveJson)) /\ FetchPageEnds

C36_Witness ==
    /\ fp.pc = "returned"
    /\ fp.retry_count = MaxRetryCount
    /\ fp.requests = MaxRetryCount
    /\ fp.answers[1] = "500" /\ fp.answers[MaxRetryCount] = "Timeout"
    /\ fp.result = "Request timeout after attempts"

(***************************************************************************)
(* Properties of the trade files written from the pool                     *)
(***************************************************************************)
\* the tasks that went through save_trades
Saved == {t \in PoolTaskIds : saving.th[t].pc = "closed"}

\* the file holds one header, first, and the row of every task that saved
RowsOfEverySaver ==
    Saved # {} =>
        /\ Len(saving.rows) = 1 + Cardinality(Saved)
        /\ saving.rows[1] = "header"
        /\ \A t \in Saved : \E i \in 2..Len(saving.rows) : saving.rows[i] = t

\* C35: with parallel_workers > 1 and a ticker spanning several dates, no two
\* worker threads are inside the check-exists, open and write sequence of the
\* ticker's file at once, so that no worker truncates or interleaves the rows
\* another has written.
C35_OneWriterPerFile ==
    /\ Cardinality(InSaveTrades) <= 1
    /\ RowsOfEverySaver

\* the rows alone: those of a task that saved are lost
RowsLost ==
    Saved = PoolTaskIds /\ pool.status = "COMPLETED" => RowsOfEverySaver

(***************************************************************************)
(* Properties of the engine's dispatcher threads                           *)
(***************************************************************************)
\* the thread is inside _process_job
Processing(th) == th.pc \in {"loop", "fetch", "task"}

\* C39: at most one dispatcher thread processes jobs at any time: after any
\* sequence of start_worker, stop_worker and create_job no two dispatcher
\* loops are alive together and no job is processed by two dispatchers at once.
C39_OneDispatcher ==
    /\ ~(WorkerAlive /\ OrphanAlive)
    /\ ~(Processing(w) /\ Processing(orphan) /\ w.job = orphan.job)

\* the second half alone: one job in the hands of two dispatchers
OneDispatcherPerJob ==
    ~(Processing(w) /\ Processing(orphan) /\ w.job = orphan.job)

\* the tasks of job j in running state
RunningTasks(j) == {t \in 1..Len(jobs[j].tasks) : jobs[j].tasks[t].status = "RUNNING"}

\* C34: the number of a job's tasks in running state never exceeds
\* parallelWorkers (1 for the jobs of the sequential loop, PoolWorkers in the
\* pool); with parallelWorkers = 1 a task starts only after the previous one
\* has left the running state.
C34_RunningTasksBounded ==
    /\ \A j \in JobIds : Cardinality(RunningTasks(j)) <= 1
    /\ Cardinality(PoolRunning) <= PoolWorkers

\* with parallelWorkers = 1 the worker starts the tasks in task-list order,
\* none while another task of the job is running
SequentialInOrder ==
    [][\A j \in JobIds : \A t \in 1..Len(jobs[j].tasks) :
           (jobs[j].tasks[t].status # "RUNNING" /\ jobs'[j].tasks[t].status = "RUNNING")
               => /\ RunningTasks(j) = {}
                  /\ w.pc = "loop" /\ t = w.pending[w.pos]
                  /\ \A i \in 1..(w.pos - 1) : w.pending[i] < t]_vars

(***************************************************************************)
(* Properties of the Historical Crawl Engine: jobs against the controls    *)
(***************************************************************************)
\* C37: whenever a job is COMPLETED every one of its tasks is COMPLETED,
\* FAILED or SKIPPED, whatever the interleaving of the worker with pause_job,
\* resume_job and auto_resume_paused_jobs.
C37_CompletedJobHasNoOpenTask ==
    \A j \in JobIds :
        jobs[j].status = "COMPLETED"
            => \A t \in 1..Len(jobs[j].tasks) :
                   jobs[j].tasks[t].status \in {"COMPLETED", "FAILED", "SKIPPED"}

\* the dispatcher waits in `while self.pause_flag.is_set() and not
\* self.stop_flag.is_set()` before its next task
WaitsOnPauseFlag ==
    w.pc = "loop" /\ w.pos <= Len(w.pending) /\ pause_flag /\ ~stop_flag

\* a dispatcher that waits on the pause flag can be released: some job is
\* PAUSED, so that resume_job has a job to clear the flag for
WaitCanEnd == WaitsOnPauseFlag => \E j \in JobIds : jobs[j].status = "PAUSED"

\* C38: while the worker runs and the token stays valid every queued job is
\* eventually started after any sequence of pause_job, resume_job and
\* cancel_job; the pause flag set by pause_job is cleared again when the
\* paused job is cancelled or resumed, so the dispatcher never waits on it
\* forever.
C38_PauseFlagClearedAgain ==
    /\ [][\A j \in JobIds :
              (jobs[j].status = "PAUSED" /\ pause_flag /\ (cancel_job(j) \/ resume_job(j)))
                  => ~pause_flag']_vars
    /\ []WaitCanEnd

\* resume_job alone does clear the flag
ResumeClearsPauseFlag ==
    [][\A j \in JobIds : (jobs[j].status = "PAUSED" /\ resume_job(j)) => ~pause_flag']_vars

(***************************************************************************)
(* Properties of the Token Store, continued                                *)
(***************************************************************************)
\* C40: set_token called without cookies leaves the stored cookies as they
\* are, and so does mark_token_invalid: the cookies stored with an earlier
\* bearer stay in the Token Store and are the Cookie header of the next
\* WebSocket connect, made with a later bearer.
C40_CookiesOutliveBearer ==
    [][((\E b \in Bearers : TokenManager_set_token(b, "None"))
            \/ TokenManager_mark_token_invalid)
           => /\ tm'.cookies = tm.cookies
              /\ token_file'.cookies = token_file.cookies
              /\ connect_cookie_header(tm') = connect_cookie_header(tm)]_vars

C40_Witness ==
    /\ lastSet.called /\ lastSet.success /\ lastSet.cookies = "None"
    /\ tm.token = lastSet.bearer
    /\ TokenManager_get_valid_token(tm, now) # None
    /\ tm.cookies = "c1"
    /\ connect_cookie_header(tm) = Some("c1")

====
